---------------------------- MODULE Spec2Model ----------------------------
(***************************************************************************)
(* A model of the WebSocketConnection frame engine of                      *)
(* aqocyrale/nodejs-websocket-protocol (src/unnamed/part_001, lines        *)
(* 309-621): the streaming frame parser, the frame serializer and the      *)
(* connection's close sequencing, driven by a peer that sends frames, a    *)
(* transport that delivers them in arbitrary chunks and raises its events, *)
(* and a host that installs handlers, sends messages and calls end().      *)
(*                                                                         *)
(* Bytes are integers 0..255, buffers are sequences of bytes, JavaScript   *)
(* strings are sequences of Unicode code points.                           *)
(***************************************************************************)
EXTENDS Integers, Sequences, FiniteSets, TLC

(***************************************************************************)
(* Program constants.                                                      *)
(***************************************************************************)
MASKING_KEY_SIZE == 4
OPCODE_CONTINUATION_FRAME == 0
OPCODE_TEXT_FRAME == 1
OPCODE_BINARY_FRAME == 2
OPCODE_CONNECTION_CLOSE == 8
OPCODE_PING == 9
OPCODE_PONG == 10

(***************************************************************************)
(* Bounds of the model.                                                    *)
(***************************************************************************)
\* frames the peer puts on the wire during one run
MaxFrames == 2
\* frames the host sends (sendTextMessage, sendBinaryMessage, sendPing)
MaxSends == 1
\* a 64-bit length at or above this value is represented by this value: no
\* stream of the model is that long, so such a frame never completes
LengthCap == 1000000
\* the peer of SpecRoundTrip sends no further message once this many bytes
\* were delivered
MaxStream == 65535

(***************************************************************************)
(* Byte arithmetic: the JavaScript operators &, ^ and << on bytes.         *)
(***************************************************************************)
RECURSIVE Pow2(_)
Pow2(n) == IF n = 0 THEN 1 ELSE 2 * Pow2(n - 1)

\* (b & (1 << n)) !== 0
BitSet(b, n) == (b \div Pow2(n)) % 2 = 1

\* b & ((1 << n) - 1)
LowBits(b, n) == b % Pow2(n)

RECURSIVE XorBits(_, _, _)
XorBits(a, b, n) ==
    IF n = 0 THEN 0
    ELSE (((a % 2) + (b % 2)) % 2) + 2 * XorBits(a \div 2, b \div 2, n - 1)

\* a ^ b on two bytes
Xor(a, b) == XorBits(a, b, 8)

\* buffer.slice(from) with a 0-based index, clamped as Buffer.slice clamps
SliceFrom(buffer, from) ==
    IF from >= Len(buffer) THEN <<>> ELSE SubSeq(buffer, from + 1, Len(buffer))

\* buffer.slice(from, to) with 0-based indices
Slice(buffer, from, to) ==
    IF from >= Len(buffer) THEN <<>>
    ELSE SubSeq(buffer, from + 1, IF to > Len(buffer) THEN Len(buffer) ELSE to)

RECURSIVE ReadUIntBE(_, _, _, _)
\* buffer.readUInt16BE(at) / Number(buffer.readBigUInt64BE(at)): n bytes, big
\* endian, from 0-based index at; acc is the value read so far
ReadUIntBE(buffer, at, n, acc) ==
    IF n = 0 THEN acc
    ELSE IF acc >= LengthCap THEN LengthCap
    ELSE LET v == (acc * 256) + buffer[at + 1]
         IN  ReadUIntBE(buffer, at + 1, n - 1, IF v >= LengthCap THEN LengthCap ELSE v)

RECURSIVE WriteUIntBE(_, _)
\* header.writeUInt16BE(v) (n = 2) / header.writeBigUInt64BE(v) (n = 8)
WriteUIntBE(v, n) ==
    IF n = 0 THEN <<>> ELSE Append(WriteUIntBE(v \div 256, n - 1), v % 256)

RECURSIVE DecimalDigits(_)
\* code.toString() followed by Buffer.from(string): the ASCII decimal digits
DecimalDigits(n) ==
    IF n < 10 THEN <<48 + n>> ELSE Append(DecimalDigits(n \div 10), 48 + (n % 10))

(***************************************************************************)
(* UTF-8: Buffer.toString('utf8') and Buffer.from(string, 'utf8').  The    *)
(* decoder replaces every ill-formed sequence by U+FFFD, as the WHATWG     *)
(* decoder Node.js uses does.                                              *)
(***************************************************************************)
REPLACEMENT_CHARACTER == 65533

RECURSIVE Utf8Dec(_, _, _, _, _, _, _)
\* i: next byte (1-based); need: continuation bytes still expected; cp: the
\* code point so far; lo..hi: the range the next continuation byte must be in
Utf8Dec(bytes, i, need, cp, lo, hi, out) ==
    IF i > Len(bytes)
    THEN IF need > 0 THEN Append(out, REPLACEMENT_CHARACTER) ELSE out
    ELSE LET b == bytes[i] IN
      IF need = 0 THEN
        IF b <= 127 THEN Utf8Dec(bytes, i + 1, 0, 0, 128, 191, Append(out, b))
        ELSE IF b >= 194 /\ b <= 223
          THEN Utf8Dec(bytes, i + 1, 1, b % 32, 128, 191, out)
        ELSE IF b >= 224 /\ b <= 239
          THEN Utf8Dec(bytes, i + 1, 2, b % 16,
                       IF b = 224 THEN 160 ELSE 128,
                       IF b = 237 THEN 159 ELSE 191, out)
        ELSE IF b >= 240 /\ b <= 244
          THEN Utf8Dec(bytes, i + 1, 3, b % 8,
                       IF b = 240 THEN 144 ELSE 128,
                       IF b = 244 THEN 143 ELSE 191, out)
        ELSE Utf8Dec(bytes, i + 1, 0, 0, 128, 191,
                     Append(out, REPLACEMENT_CHARACTER))
      ELSE IF b < lo \/ b > hi
        \* ill-formed: emit U+FFFD and decode this byte again as a first byte
        THEN Utf8Dec(bytes, i, 0, 0, 128, 191, Append(out, REPLACEMENT_CHARACTER))
      ELSE IF need = 1
        THEN Utf8Dec(bytes, i + 1, 0, 0, 128, 191, Append(out, (cp * 64) + (b % 64)))
      ELSE Utf8Dec(bytes, i + 1, need - 1, (cp * 64) + (b % 64), 128, 191, out)

\* Buffer.concat(payloadBuffers).toString('utf8')
Utf8Decode(bytes) == Utf8Dec(bytes, 1, 0, 0, 128, 191, <<>>)

\* the UTF-8 bytes of one code point
Utf8EncodeOne(c) ==
    IF c < 128 THEN <<c>>
    ELSE IF c < 2048 THEN <<192 + (c \div 64), 128 + (c % 64)>>
    ELSE IF c < 65536
      THEN <<224 + (c \div 4096), 128 + ((c \div 64) % 64), 128 + (c % 64)>>
    ELSE <<240 + (c \div 262144), 128 + ((c \div 4096) % 64),
           128 + ((c \div 64) % 64), 128 + (c % 64)>>

RECURSIVE Utf8Encode(_)
\* Buffer.from(string, 'utf8')
Utf8Encode(string) ==
    IF string = <<>> THEN <<>>
    ELSE Utf8EncodeOne(Head(string)) \o Utf8Encode(Tail(string))

(***************************************************************************)
(* The frame serializer.                                                   *)
(***************************************************************************)
\* the XOR of payload with the key, byte i with key[i % MASKING_KEY_SIZE]
MaskPayload(payload, maskingKey) ==
    [i \in 1..Len(payload) |->
        Xor(payload[i], maskingKey[((i - 1) % MASKING_KEY_SIZE) + 1])]

createHeaderOnlyUnmaskedFrame(opCode) == <<128 + opCode, 0>>

createHeaderOnlyMaskedFrame(opCode) == <<128 + opCode, 128, 0, 0, 0, 0>>

FRAME_DATA_PING_UNMASKED == createHeaderOnlyUnmaskedFrame(OPCODE_PING)
FRAME_DATA_PONG_UNMASKED == createHeaderOnlyUnmaskedFrame(OPCODE_PONG)
FRAME_DATA_PING_MASKED == createHeaderOnlyMaskedFrame(OPCODE_PING)
FRAME_DATA_PONG_MASKED == createHeaderOnlyMaskedFrame(OPCODE_PONG)

\* createMessageFrame whose first length test is length <= 126
createMessageFrameShortTo126(opCode, payload, toMask, randomKey) ==
    LET length == Len(payload)
        lengthBytes ==
            IF length <= 126 THEN <<length>>
            ELSE IF length < 65536 THEN <<126>> \o WriteUIntBE(length, 2)
            ELSE <<127>> \o WriteUIntBE(length, 8)
        byte0 == 128 + opCode
    IN  IF toMask
        THEN <<byte0, Head(lengthBytes) + 128>> \o Tail(lengthBytes)
                 \o randomKey \o MaskPayload(payload, randomKey)
        ELSE <<byte0>> \o lengthBytes \o payload

\* createMessageFrame without line 354: the payload is masked and the key
\* is written, but the mask bit of the header stays clear
createMessageFrameNoMaskBit(opCode, payload, toMask, randomKey) ==
    LET length == Len(payload)
        lengthBytes ==
            IF length < 126 THEN <<length>>
            ELSE IF length < 65536 THEN <<126>> \o WriteUIntBE(length, 2)
            ELSE <<127>> \o WriteUIntBE(length, 8)
        byte0 == 128 + opCode
    IN  IF toMask
        THEN <<byte0>> \o lengthBytes \o randomKey \o MaskPayload(payload, randomKey)
        ELSE <<byte0>> \o lengthBytes \o payload

\* createMessageFrame(opCode, payload, toMask); randomKey is what
\* Crypto.randomBytes(MASKING_KEY_SIZE) returns when toMask is set
createMessageFrame(opCode, payload, toMask, randomKey) ==
    LET length == Len(payload)
        lengthBytes ==
            IF length < 126 THEN <<length>>
            ELSE IF length < 65536 THEN <<126>> \o WriteUIntBE(length, 2)
            ELSE <<127>> \o WriteUIntBE(length, 8)
        byte0 == 128 + opCode
    IN  IF toMask
        THEN <<byte0, Head(lengthBytes) + 128>> \o Tail(lengthBytes)
                 \o randomKey \o MaskPayload(payload, randomKey)
        ELSE <<byte0>> \o lengthBytes \o payload

\* the caller's buffer after createMessageFrame returns: line 349 replaces
\* the local payload by a copy (Buffer.from) before the loop of lines
\* 350-352 writes to it, so the argument keeps its bytes
payloadArgumentAfter(payload, toMask, randomKey) ==
    LET copy == payload
        masked == IF toMask THEN MaskPayload(copy, randomKey) ELSE copy
    IN  payload

createTextFrame(string, toMask, randomKey) ==
    createMessageFrame(OPCODE_TEXT_FRAME, Utf8Encode(string), toMask, randomKey)

createBinaryFrame(buffer, toMask, randomKey) ==
    createMessageFrame(OPCODE_BINARY_FRAME, buffer, toMask, randomKey)

createCloseFrame(code, toMask, randomKey) ==
    createMessageFrame(OPCODE_CONNECTION_CLOSE, DecimalDigits(code), toMask, randomKey)

(***************************************************************************)
(* The state.                                                              *)
(*                                                                         *)
(* ws is the closure of one WebSocketConnection: its constructor           *)
(* arguments, its handler slots (TRUE: a handler is installed, FALSE:      *)
(* null), its liveness and parser variables, and trace, the record of      *)
(* everything the connection has done to its socket and to its host, in    *)
(* order: socket.write(frame), socket.end() and each handler invocation    *)
(* with its arguments, each stamped with what isOpen() returned at that    *)
(* moment.  payloadBuffers, a list of buffers the code only ever           *)
(* concatenates (Buffer.concat) or empties, is held as its concatenation.  *)
(* consumed is a history of the data frames the parser accepted   *)
(* for the message being assembled (header fields and raw payload bytes).  *)
(***************************************************************************)
VARIABLES
    ws,          \* the connection
    wire,        \* bytes the peer has sent that the transport still holds
    sentFrames,  \* history: the frames the peer has sent, in order
    nFed,        \* history: the number of bytes handed to onData so far
    cuts,        \* history of SpecOpen: where chunk boundaries fell inside a frame
    readable,    \* the transport may still deliver data ('end' not yet seen)
    closed,      \* the transport has emitted 'close'
    nSends,      \* host sends so far
    nPeerSends,  \* frames the peer has sent since the initial state
    handshake    \* the opening handshake: its socket listeners, what it wrote
                 \* and how it called its callback

vars == <<ws, wire, sentFrames, nFed, cuts, readable, closed, nSends,
          nPeerSends, handshake>>

\* the handshake of a connection that exists: it is over
Upgraded == "upgraded"

NoError == "null"

\* one entry of ws.trace
Effect(st, kind, data, appCode, statusCode, error, frames) ==
    [st EXCEPT !.trace = Append(@,
        [k |-> kind, open |-> st.isAlive, data |-> data, app |-> appCode,
         code |-> statusCode, err |-> error, frames |-> frames])]

\* socket.write(frame)
socketWrite(st, frame) == Effect(st, "write", frame, "", 0, NoError, <<>>)

\* socket.end()
socketEnd(st) == Effect(st, "end", <<>>, "", 0, NoError, <<>>)

(***************************************************************************)
(* The host.  Its text handler is the one of example/usage-example.js: on  *)
(* the message 'close-connection' (here the one-character CloseCommand) it *)
(* calls end() from inside the callback.  Its end handler calls end()      *)
(* again, re-entrantly.                                                    *)
(***************************************************************************)
CloseCommand == <<88>>

RECURSIVE dropConnection(_, _, _, _)
RECURSIVE readDataFrameHeader(_, _)
RECURSIVE readDataFramePayload(_, _)

\* end: () => { dropConnection(1000, 'CLOSED_BY_SELF'); }
end(st) == dropConnection(st, 1000, "CLOSED_BY_SELF", NoError)

hostOnEnd(st, appCode, statusCode, error) ==
    end(Effect(st, "on_end", <<>>, appCode, statusCode, error, <<>>))

hostOnTextMessage(st, string) ==
    LET s1 == Effect(st, "on_text", string, "", 0, NoError, st.consumed)
    IN  IF string = CloseCommand THEN end(s1) ELSE s1

hostOnBinaryMessage(st, buffer) ==
    Effect(st, "on_binary", buffer, "", 0, NoError, st.consumed)

\* the trace keeps one entry for a run of consecutive on_sync invocations,
\* without the date (the date is in lastSyncDate)
hostOnSync(st, syncDate) ==
    IF st.trace # <<>> /\ st.trace[Len(st.trace)].k = "on_sync"
       /\ st.trace[Len(st.trace)].open = st.isAlive
    THEN st
    ELSE Effect(st, "on_sync", <<>>, "", 0, NoError, <<>>)

(***************************************************************************)
(* The connection.                                                         *)
(***************************************************************************)
\* dropConnection whose guard of line 611 returns only for the host's end()
dropConnectionGuardsEndOnly(st, statusCode, appCode, error) ==
    IF ~st.isAlive /\ appCode = "CLOSED_BY_SELF" THEN st
    ELSE LET s1 == [st EXCEPT !.isAlive = FALSE]
             s2 == socketWrite(s1,
                       createCloseFrame(statusCode, s1.toMaskOwnMessages, s1.randomKey))
             s3 == socketEnd(s2)
         IN  IF s3.onEnd
             THEN hostOnEnd(s3, appCode, statusCode, error)
             ELSE s3

\* dropConnection without the socket.end() of line 615
dropConnectionKeepsSocket(st, statusCode, appCode, error) ==
    IF ~st.isAlive THEN st
    ELSE LET s1 == [st EXCEPT !.isAlive = FALSE]
             s2 == socketWrite(s1,
                       createCloseFrame(statusCode, s1.toMaskOwnMessages, s1.randomKey))
         IN  IF s2.onEnd
             THEN hostOnEnd(s2, appCode, statusCode, error)
             ELSE s2

\* dropConnection that invokes onEnd before it writes the close frame
dropConnectionNotifiesFirst(st, statusCode, appCode, error) ==
    IF ~st.isAlive THEN st
    ELSE LET s1 == [st EXCEPT !.isAlive = FALSE]
             s2 == IF s1.onEnd
                   THEN hostOnEnd(s1, appCode, statusCode, error)
                   ELSE s1
             s3 == socketWrite(s2,
                       createCloseFrame(statusCode, s2.toMaskOwnMessages, s2.randomKey))
         IN  socketEnd(s3)

dropConnection(st, statusCode, appCode, error) ==
    IF ~st.isAlive THEN st
    ELSE LET s1 == [st EXCEPT !.isAlive = FALSE]
             s2 == socketWrite(s1,
                       createCloseFrame(statusCode, s1.toMaskOwnMessages, s1.randomKey))
             s3 == socketEnd(s2)
         IN  IF s3.onEnd
             THEN hostOnEnd(s3, appCode, statusCode, error)
             ELSE s3

sendTextMessage(st, string) ==
    socketWrite(st, createTextFrame(string, st.toMaskOwnMessages, st.randomKey))

sendBinaryMessage(st, buffer) ==
    socketWrite(st, createBinaryFrame(buffer, st.toMaskOwnMessages, st.randomKey))

frameDataPing(st) ==
    IF st.toMaskOwnMessages THEN FRAME_DATA_PING_MASKED ELSE FRAME_DATA_PING_UNMASKED

\* line 384 with the two constants exchanged
frameDataPongOfPeer(st) ==
    IF st.toMaskOwnMessages THEN FRAME_DATA_PONG_UNMASKED ELSE FRAME_DATA_PONG_MASKED

frameDataPong(st) ==
    IF st.toMaskOwnMessages THEN FRAME_DATA_PONG_MASKED ELSE FRAME_DATA_PONG_UNMASKED

sendPing(st) == socketWrite(st, frameDataPing(st))

\* a sendPong that also ends the message being read
sendPongEndsMessage(st) ==
    socketWrite([st EXCEPT !.isReadingMessage = FALSE, !.payloadBuffers = <<>>],
                frameDataPong(st))

sendPong(st) == socketWrite(st, frameDataPong(st))

\* onFrameComplete whose binary case has no break and falls into the text
\* case
onFrameCompleteFallsThrough(st) ==
    LET s1 == [st EXCEPT !.isReadingMessage = FALSE]
        data == s1.payloadBuffers
        s2 == [s1 EXCEPT !.payloadBuffers = <<>>]
        s3 == [s2 EXCEPT !.consumed = <<>>]
    IN  IF s1.payloadOpCode \in {OPCODE_BINARY_FRAME, OPCODE_TEXT_FRAME}
           /\ s1.onTextMessage
        THEN [hostOnTextMessage(s2, Utf8Decode(data)) EXCEPT !.consumed = <<>>]
        ELSE IF s1.payloadOpCode = OPCODE_BINARY_FRAME /\ s1.onBinaryMessage
        THEN [hostOnBinaryMessage(s2, data) EXCEPT !.consumed = <<>>]
        ELSE s3

onFrameComplete(st) ==
    LET s1 == [st EXCEPT !.isReadingMessage = FALSE]
        data == s1.payloadBuffers
        s2 == [s1 EXCEPT !.payloadBuffers = <<>>]
        \* the history restarts with the next message
        s3 == [s2 EXCEPT !.consumed = <<>>]
    IN  IF s1.payloadOpCode = OPCODE_BINARY_FRAME /\ s1.onBinaryMessage
        THEN [hostOnBinaryMessage(s2, data) EXCEPT !.consumed = <<>>]
        ELSE IF s1.payloadOpCode = OPCODE_TEXT_FRAME /\ s1.onTextMessage
        THEN [hostOnTextMessage(s2, Utf8Decode(data)) EXCEPT !.consumed = <<>>]
        ELSE s3

\* the unmasking loop with a masking index that restarts with every chunk
UnmaskLoopPerChunk(buffer, length, maskingKey, index, i) ==
    [bytes |-> [k \in 1..(length - i) |->
                   Xor(buffer[i + k],
                       maskingKey[((i + k - 1) % MASKING_KEY_SIZE) + 1])],
     maskingIndex |-> (index + (length - i)) % MASKING_KEY_SIZE]

\* the unmasking loop of readDataFramePayload (lines 563-568) from its
\* iteration i on: iteration i + k - 1 unmasks byte i + k - 1 of buffer with
\* the key byte at the masking index, which has advanced k - 1 times from
\* index; bytes is what the first length bytes of buffer hold afterwards
UnmaskLoop(buffer, length, maskingKey, index, i) ==
    [bytes |-> [k \in 1..(length - i) |->
                   Xor(buffer[i + k],
                       maskingKey[((index + k - 1) % MASKING_KEY_SIZE) + 1])],
     maskingIndex |-> (index + (length - i)) % MASKING_KEY_SIZE]

\* readDataFramePayload without lines 578-580: what follows the frame in
\* its chunk is not read
readDataFramePayloadOnly(st, buffer) ==
    LET byteLength == Len(buffer)
        length == IF byteLength < st.remainingLength
                  THEN byteLength ELSE st.remainingLength
        un == IF st.isMasked
              THEN UnmaskLoop(buffer, length, st.maskingKey, st.maskingIndex, 0)
              ELSE [bytes |-> Slice(buffer, 0, length),
                    maskingIndex |-> st.maskingIndex]
        s1 == [st EXCEPT
                 !.maskingIndex = un.maskingIndex,
                 !.payloadBuffers = @ \o un.bytes,
                 !.remainingLength = @ - length,
                 !.consumed = IF @ = <<>> THEN @
                              ELSE [@ EXCEPT ![Len(@)].raw =
                                        @ \o Slice(buffer, 0, length)]]
    IN  IF s1.remainingLength = 0 /\ s1.isFinSet
        THEN onFrameComplete([s1 EXCEPT !.maskingKey = <<>>])
        ELSE s1

readDataFramePayload(st, buffer) ==
    LET byteLength == Len(buffer)
        length == IF byteLength < st.remainingLength
                  THEN byteLength ELSE st.remainingLength
        un == IF st.isMasked
              THEN UnmaskLoop(buffer, length, st.maskingKey, st.maskingIndex, 0)
              ELSE [bytes |-> Slice(buffer, 0, length),
                    maskingIndex |-> st.maskingIndex]
        s1 == [st EXCEPT
                 !.maskingIndex = un.maskingIndex,
                 !.payloadBuffers = @ \o un.bytes,
                 !.remainingLength = @ - length,
                 !.consumed = IF @ = <<>> THEN @
                              ELSE [@ EXCEPT ![Len(@)].raw =
                                        @ \o Slice(buffer, 0, length)]]
    IN  IF s1.remainingLength = 0
        THEN LET s2 == IF s1.isFinSet
                       THEN onFrameComplete([s1 EXCEPT !.maskingKey = <<>>])
                       ELSE s1
             IN  IF byteLength > length
                 THEN readDataFrameHeader(s2, SliceFrom(buffer, length))
                 ELSE s2
        ELSE s1

\* the test of line 481 without isRSV3Set
reservedBitSetButRSV3(byte0) == BitSet(byte0, 6) \/ BitSet(byte0, 5)

\* isRSV1Set || isRSV2Set || isRSV3Set (lines 476-481)
reservedBitSet(byte0) == BitSet(byte0, 6) \/ BitSet(byte0, 5) \/ BitSet(byte0, 4)

\* readDataFrameHeader without the test of line 491
maskingMissingNotEnforced(st) == FALSE

\* the test of line 491 with the role inverted
maskingMissingInverted(st) == ~st.isPeerMaskingRequired /\ ~st.isMasked

\* isPeerMaskingRequired && !isMasked (line 491)
maskingMissing(st) == st.isPeerMaskingRequired /\ ~st.isMasked

\* the switch of lines 532-551 without its case for the close opcode
knownOpCodeButClose(opCode) ==
    opCode \in {OPCODE_CONTINUATION_FRAME, OPCODE_TEXT_FRAME,
                OPCODE_BINARY_FRAME, OPCODE_PING, OPCODE_PONG}

\* the opcodes of the switch of lines 532-551 that have a case
knownOpCode(opCode) ==
    opCode \in {OPCODE_CONNECTION_CLOSE, OPCODE_CONTINUATION_FRAME,
                OPCODE_TEXT_FRAME, OPCODE_BINARY_FRAME, OPCODE_PING, OPCODE_PONG}

\* line 536 and line 540: the opcode does not fit isReadingMessage
badContinueOpCode(st, opCode) ==
    opCode = OPCODE_CONTINUATION_FRAME /\ ~st.isReadingMessage

\* the test of line 540 on the text case only
badDataOpCodeTextOnly(st, opCode) ==
    opCode = OPCODE_TEXT_FRAME /\ st.isReadingMessage

badDataOpCode(st, opCode) ==
    opCode \in {OPCODE_TEXT_FRAME, OPCODE_BINARY_FRAME} /\ st.isReadingMessage

readDataFrameHeader(st, buffer) ==
    LET length == Len(buffer) IN
    IF length < 2 THEN dropConnection(st, 1002, "ERR_INAVLID_DATA_FRAME_H2", NoError)
    ELSE
    LET byte0 == buffer[1]
        s1 == [st EXCEPT !.isFinSet = BitSet(byte0, 7)]
    IN
    IF reservedBitSet(byte0)
    THEN dropConnection(s1, 1003, "INVALID_EXTENSION", NoError)
    ELSE
    LET opCode == LowBits(byte0, 4)
        byte1 == buffer[2]
        s2 == [s1 EXCEPT !.isMasked = BitSet(byte1, 7)]
    IN
    IF maskingMissing(s2)
    THEN dropConnection(s2, 1008, "ERR_PEER_MASKING_DISABLED", NoError)
    ELSE
    LET payloadLength7 == LowBits(byte1, 7)
        extended == IF payloadLength7 = 126 THEN 2
                    ELSE IF payloadLength7 = 127 THEN 8 ELSE 0
    IN
    IF payloadLength7 = 126 /\ length < 2 + 2
    THEN dropConnection(s2, 1002, "ERR_INAVLID_DATA_FRAME_P16", NoError)
    ELSE IF payloadLength7 = 127 /\ length < 2 + 8
    THEN dropConnection(s2, 1002, "ERR_INAVLID_DATA_FRAME_P64", NoError)
    ELSE
    LET payloadLength == IF extended = 0 THEN payloadLength7
                         ELSE ReadUIntBE(buffer, 2, extended, 0)
        keyIndex == 2 + extended
        minLength == keyIndex + (IF s2.isMasked THEN MASKING_KEY_SIZE ELSE 0)
    IN
    IF s2.isMasked /\ length < minLength
    THEN dropConnection(s2, 1002, "ERR_MASKING_KEY_MISSING", NoError)
    ELSE
    LET s3 == IF s2.isMasked
              THEN [s2 EXCEPT !.maskingKey =
                        Slice(buffer, keyIndex, keyIndex + MASKING_KEY_SIZE)]
              ELSE s2
        nextBufferIndex == minLength
        \* lines 553-556, reached by the data opcodes only
        accept(s) ==
            readDataFramePayload(
                [s EXCEPT !.maskingIndex = 0,
                          !.remainingLength = payloadLength,
                          !.consumed = Append(@,
                              [opCode |-> opCode, fin |-> s.isFinSet,
                               length |-> payloadLength,
                               masked |-> s.isMasked,
                               key |-> IF s.isMasked THEN s.maskingKey ELSE <<>>,
                               raw |-> <<>>])],
                SliceFrom(buffer, nextBufferIndex))
    IN
    IF ~knownOpCode(opCode)
    THEN dropConnection(s3, 1003, "ERR_UNSUPPORTED_OPCODE", NoError)
    ELSE IF opCode = OPCODE_CONNECTION_CLOSE
    THEN dropConnection(s3, 1000, "CLOSED_BY_PEER", NoError)
    ELSE IF badContinueOpCode(s3, opCode)
    THEN dropConnection(s3, 1002, "ERR_BAD_CONTINUE_OPCODE", NoError)
    ELSE IF badDataOpCode(s3, opCode)
    THEN dropConnection(s3, 1002, "ERR_BAD_DATA_OPCODE", NoError)
    ELSE IF opCode = OPCODE_CONTINUATION_FRAME
    THEN accept(s3)
    ELSE IF opCode \in {OPCODE_TEXT_FRAME, OPCODE_BINARY_FRAME}
    THEN accept([s3 EXCEPT !.isReadingMessage = TRUE,
                           !.payloadOpCode = opCode,
                           !.payloadBuffers = <<>>])
    ELSE IF opCode = OPCODE_PING
    THEN sendPong(s3)
    ELSE s3

\* now is what new Date() returns
onData(st, buffer, now) ==
    LET s1 == [st EXCEPT !.lastSyncDate = now]
        s2 == IF s1.onSync THEN hostOnSync(s1, s1.lastSyncDate) ELSE s1
    IN  IF s2.remainingLength = 0
        THEN readDataFrameHeader(s2, buffer)
        ELSE readDataFramePayload(s2, buffer)

\* the closure right after new WebSocketConnection({ socket, ... })
WebSocketConnection(isPeerMaskingRequired, toMaskOwnMessages) ==
    [isPeerMaskingRequired |-> isPeerMaskingRequired,
     toMaskOwnMessages |-> toMaskOwnMessages,
     onTextMessage |-> FALSE, onBinaryMessage |-> FALSE,
     onSync |-> FALSE, onEnd |-> FALSE,
     isAlive |-> TRUE, lastSyncDate |-> 0,
     isReadingMessage |-> FALSE,
     isFinSet |-> FALSE, isMasked |-> FALSE, payloadOpCode |-> 0,
     maskingKey |-> <<>>, maskingIndex |-> 0, remainingLength |-> 0,
     payloadBuffers |-> <<>>,
     randomKey |-> <<>>, trace |-> <<>>, consumed |-> <<>>]

(***************************************************************************)
(* The peer and the transport.  A peer frame is a record of its header     *)
(* fields and its unmasked payload; FrameBytes is its wire form (RFC 6455  *)
(* section 5.2, the layout readDataFrameHeader reads).  ext is the number  *)
(* of extended-length bytes the peer uses (0, 2 or 8).                     *)
(***************************************************************************)
PeerKey == <<55, 250, 33, 61>>

Frame(fin, rsv, opCode, masked, ext, payload) ==
    [fin |-> fin, rsv |-> rsv, opCode |-> opCode, masked |-> masked,
     ext |-> ext, payload |-> payload]

HeaderBytes(f) ==
    <<(IF f.fin THEN 128 ELSE 0) + (16 * f.rsv) + f.opCode,
      (IF f.masked THEN 128 ELSE 0)
         + (IF f.ext = 0 THEN Len(f.payload) ELSE IF f.ext = 2 THEN 126 ELSE 127)>>
    \o (IF f.ext = 0 THEN <<>> ELSE WriteUIntBE(Len(f.payload), f.ext))
    \o (IF f.masked THEN PeerKey ELSE <<>>)

FrameBytes(f) ==
    HeaderBytes(f)
    \o (IF f.masked THEN MaskPayload(f.payload, PeerKey) ELSE f.payload)

\* the first and the second fragment of the text message U+00E9, whose two
\* UTF-8 bytes are split between them
FirstFragment(m) == Frame(FALSE, 0, OPCODE_TEXT_FRAME, m, 0, <<195>>)
LastFragment(m) == Frame(TRUE, 0, OPCODE_CONTINUATION_FRAME, m, 0, <<169>>)

\* the frames a peer sends, for each value m of its mask bit
FramesMasked(m) ==
    { Frame(TRUE, 0, OPCODE_TEXT_FRAME, m, 0, <<72, 105>>),
      FirstFragment(m),
      LastFragment(m),
      Frame(TRUE, 0, OPCODE_BINARY_FRAME, m, 2, <<195, 40>>),
      Frame(TRUE, 0, OPCODE_PING, m, 0, <<>>),
      Frame(TRUE, 0, OPCODE_CONNECTION_CLOSE, m, 0, <<3, 232>>) }

\* a small choice of frames: the host's close command, the peer's close and
\* a ping
FewFrames(m) ==
    { Frame(TRUE, 0, OPCODE_TEXT_FRAME, m, 0, CloseCommand),
      Frame(TRUE, 0, OPCODE_CONNECTION_CLOSE, m, 0, <<3, 232>>),
      Frame(TRUE, 0, OPCODE_PING, m, 0, <<>>) }

\* what the peer of a connection may send: a well-behaved peer of a server
\* masks and a well-behaved peer of a client does not; the last frame is
\* that of a peer that breaks that rule
PeerFrames(isPeerMaskingRequired) ==
    FramesMasked(isPeerMaskingRequired)
    \cup { Frame(TRUE, 0, OPCODE_TEXT_FRAME, ~isPeerMaskingRequired, 0, <<72, 105>>) }

\* PeerFrames with a frame for each reserved bit, an opcode of each unused
\* range (the second with a 64-bit length), and a pong
HeaderFrames(isPeerMaskingRequired) ==
    PeerFrames(isPeerMaskingRequired)
    \cup { Frame(TRUE, 4, OPCODE_TEXT_FRAME, isPeerMaskingRequired, 0, <<>>),
           Frame(TRUE, 2, OPCODE_BINARY_FRAME, isPeerMaskingRequired, 0, <<>>),
           Frame(FALSE, 1, OPCODE_CONTINUATION_FRAME, isPeerMaskingRequired, 0, <<>>),
           Frame(TRUE, 0, 3, isPeerMaskingRequired, 0, <<>>),
           Frame(TRUE, 0, 11, isPeerMaskingRequired, 8, <<>>),
           Frame(TRUE, 0, OPCODE_PONG, isPeerMaskingRequired, 0, <<>>) }

RECURSIVE CutAt(_, _)
\* where the stream offset p falls in the frames the peer sent: strictly
\* inside a header, strictly inside a payload (or between a header and its
\* payload), or at a frame boundary (the empty set)
CutAt(frames, p) ==
    IF frames = <<>> \/ p <= 0 THEN {}
    ELSE LET h == Len(HeaderBytes(Head(frames)))
             l == Len(FrameBytes(Head(frames)))
         IN  IF p < h THEN {"header"}
             ELSE IF p < l THEN {"payload"}
             ELSE CutAt(Tail(frames), p - l)

\* what Crypto.randomBytes(MASKING_KEY_SIZE) may return
RandomKeys == { <<1, 2, 3, 4>>, <<255, 0, 170, 85>> }

\* what the host sends
HostStrings == { <<72, 105>>, <<233>> }
HostBuffers == { <<0, 255>> }

(***************************************************************************)
(* Initial state: serverUpgradeRequest constructs the connection with      *)
(* isPeerMaskingRequired and without toMaskOwnMessages (lines 269-273),    *)
(* createClientConnection the other way round (lines 176-180).             *)
(***************************************************************************)
Init ==
    /\ \E server \in BOOLEAN : ws = WebSocketConnection(server, ~server)
    /\ wire = <<>>
    /\ sentFrames = <<>>
    /\ nFed = 0
    /\ cuts = {}
    /\ readable = TRUE
    /\ closed = FALSE
    /\ nSends = 0
    /\ nPeerSends = 0
    /\ handshake = Upgraded

\* The keys Crypto.randomBytes may return during one call into the
\* connection.  dropConnection creates a frame only while isAlive, and a
\* frame gets a key only with toMaskOwnMessages: without them no key is
\* drawn.
NoKey == <<0, 0, 0, 0>>
DropKeys == IF ws.isAlive /\ ws.toMaskOwnMessages THEN RandomKeys ELSE {NoKey}
SendKeys == IF ws.toMaskOwnMessages THEN RandomKeys ELSE {NoKey}

\* one synchronous call into the connection: Crypto.randomBytes returns key
Call(key) == [ws EXCEPT !.randomKey = key]
Return(st) == [st EXCEPT !.randomKey = <<>>]

(***************************************************************************)
(* The peer writes one more frame to its end of the stream.                *)
(***************************************************************************)
PeerSendFrom(frames) ==
    /\ readable /\ ~closed
    /\ nPeerSends < MaxFrames
    /\ \E f \in frames :
         /\ wire' = wire \o FrameBytes(f)
         /\ sentFrames' = Append(sentFrames, f)
    /\ nPeerSends' = nPeerSends + 1
    /\ UNCHANGED <<handshake, ws, nFed, cuts, readable, closed, nSends>>

PeerSend == PeerSendFrom(PeerFrames(ws.isPeerMaskingRequired))

\* the peer of the full system sends the frames that end a connection or
\* answer on it
PeerSendFew == PeerSendFrom(FewFrames(ws.isPeerMaskingRequired))

(***************************************************************************)
(* socket.on('data', onData): the transport hands over the next n bytes.   *)
(* The clock is the number of bytes delivered: it advances with each chunk.*)
(***************************************************************************)
Deliver(n, key) ==
    /\ ws' = Return(onData(Call(key), SubSeq(wire, 1, n), nFed + n))
    /\ nFed' = nFed + n
    /\ wire' = SubSeq(wire, n + 1, Len(wire))

SocketData ==
    /\ readable /\ ~closed
    /\ \E n \in 1..Len(wire) : \E key \in DropKeys : Deliver(n, key)
    /\ UNCHANGED <<handshake, sentFrames, cuts, readable, closed, nSends, nPeerSends>>

\* socket.on('end', ...): the peer has closed its side; every byte it sent
\* has been delivered
SocketEnd ==
    /\ readable /\ ~closed /\ wire = <<>>
    /\ \E key \in DropKeys :
         ws' = Return(dropConnection(Call(key), 1000, "CONNECTION_CLOSED", NoError))
    /\ readable' = FALSE
    /\ UNCHANGED <<handshake, wire, sentFrames, nFed, cuts, closed, nSends, nPeerSends>>

\* socket.on('close', ...)
SocketClose ==
    /\ ~closed
    /\ \E key \in DropKeys :
         ws' = Return(dropConnection(Call(key), 1000, "CONNECTION_CLOSED", NoError))
    /\ closed' = TRUE
    /\ readable' = FALSE
    /\ wire' = <<>>
    /\ UNCHANGED <<handshake, sentFrames, nFed, cuts, nSends, nPeerSends>>

\* socket.on('error', ...): the stream is destroyed, 'close' follows
SocketError ==
    /\ ~closed /\ readable
    /\ \E key \in DropKeys :
         ws' = Return(dropConnection(Call(key), 1011, "NETWORK_ERROR", "error"))
    /\ readable' = FALSE
    /\ wire' = <<>>
    /\ UNCHANGED <<handshake, sentFrames, nFed, cuts, closed, nSends, nPeerSends>>

\* a 'timeout' handler that drops with the codes of the 'end' handler
SocketTimeoutAsClosed ==
    /\ ~closed
    /\ \E key \in DropKeys :
         ws' = Return(dropConnection(Call(key), 1000, "CONNECTION_CLOSED", NoError))
    /\ UNCHANGED <<handshake, wire, sentFrames, nFed, cuts, readable, closed, nSends, nPeerSends>>

\* socket.on('timeout', ...)
SocketTimeout ==
    /\ ~closed
    /\ \E key \in DropKeys :
         ws' = Return(dropConnection(Call(key), 1008, "TIMEOUT", NoError))
    /\ UNCHANGED <<handshake, wire, sentFrames, nFed, cuts, readable, closed, nSends, nPeerSends>>

(***************************************************************************)
(* The host's calls on the connection object (lines 410-428).              *)
(***************************************************************************)
HostEnd ==
    /\ \E key \in DropKeys : ws' = Return(end(Call(key)))
    /\ UNCHANGED <<handshake, wire, sentFrames, nFed, cuts, readable, closed, nSends, nPeerSends>>

HostSendTextMessage ==
    /\ nSends < MaxSends
    /\ \E string \in HostStrings : \E key \in SendKeys :
         ws' = Return(sendTextMessage(Call(key), string))
    /\ nSends' = nSends + 1
    /\ UNCHANGED <<handshake, wire, sentFrames, nFed, cuts, readable, closed, nPeerSends>>

HostSendBinaryMessage ==
    /\ nSends < MaxSends
    /\ \E buffer \in HostBuffers : \E key \in SendKeys :
         ws' = Return(sendBinaryMessage(Call(key), buffer))
    /\ nSends' = nSends + 1
    /\ UNCHANGED <<handshake, wire, sentFrames, nFed, cuts, readable, closed, nPeerSends>>

HostSendPing ==
    /\ nSends < MaxSends
    /\ ws' = sendPing(ws)
    /\ nSends' = nSends + 1
    /\ UNCHANGED <<handshake, wire, sentFrames, nFed, cuts, readable, closed, nPeerSends>>

\* The host installs its handlers when it is given the connection, before
\* the event loop dispatches the first transport event (README lines 42-52,
\* example lines 55-80).
BeforeTraffic == nFed = 0 /\ ws.trace = <<>> /\ readable /\ ~closed

\* setOnTextMessage: it => onTextMessage = it, with a handler or with null
SetOnTextMessage ==
    /\ BeforeTraffic
    /\ \E it \in BOOLEAN : ws' = [ws EXCEPT !.onTextMessage = it]
    /\ UNCHANGED <<handshake, wire, sentFrames, nFed, cuts, readable, closed, nSends, nPeerSends>>

SetOnBinaryMessage ==
    /\ BeforeTraffic
    /\ \E it \in BOOLEAN : ws' = [ws EXCEPT !.onBinaryMessage = it]
    /\ UNCHANGED <<handshake, wire, sentFrames, nFed, cuts, readable, closed, nSends, nPeerSends>>

SetOnSync ==
    /\ BeforeTraffic
    /\ \E it \in BOOLEAN : ws' = [ws EXCEPT !.onSync = it]
    /\ UNCHANGED <<handshake, wire, sentFrames, nFed, cuts, readable, closed, nSends, nPeerSends>>

SetOnEnd ==
    /\ BeforeTraffic
    /\ \E it \in BOOLEAN : ws' = [ws EXCEPT !.onEnd = it]
    /\ UNCHANGED <<handshake, wire, sentFrames, nFed, cuts, readable, closed, nSends, nPeerSends>>

(***************************************************************************)
(* Spec: the connection from its construction, with every transport event  *)
(* and the host's installing of handlers and closing.  The peer sends the  *)
(* frames of FewFrames, none of them binary, so the binary handler plays   *)
(* no part here: it is installed in SpecSend and in SpecParse.             *)
(***************************************************************************)
Next ==
    \/ PeerSendFew
    \/ SocketData
    \/ SocketEnd
    \/ SocketClose
    \/ SocketError
    \/ SocketTimeout
    \/ HostEnd
    \/ SetOnTextMessage
    \/ SetOnSync
    \/ SetOnEnd

Spec == Init /\ [][Next]_vars

(***************************************************************************)
(* SpecParse: the parser under every frame of PeerFrames and every way of  *)
(* cutting the stream into chunks, on a connection whose host has          *)
(* installed its four handlers.  The connection is dropped by what it      *)
(* reads.  Every other action of Spec either drops the connection or       *)
(* leaves ws unchanged, so the states in which the connection is open are  *)
(* those reached by reading alone.                                         *)
(***************************************************************************)
Installed(server) ==
    [WebSocketConnection(server, ~server) EXCEPT
        !.onTextMessage = TRUE, !.onBinaryMessage = TRUE,
        !.onSync = TRUE, !.onEnd = TRUE]

InitParse ==
    /\ wire = <<>>
    /\ cuts = {}
    /\ readable = TRUE
    /\ closed = FALSE
    /\ nSends = 0
    /\ nPeerSends = 0
    /\ handshake = Upgraded
    /\ \E server \in BOOLEAN :
         \* a new connection, or one that has read the first fragment of a
         \* message, which came as one chunk
         \/ /\ ws = Installed(server)
            /\ sentFrames = <<>>
            /\ nFed = 0
         \/ LET first == FrameBytes(FirstFragment(server))
            IN  /\ \E key \in RandomKeys :
                     ws = Return(onData([Installed(server) EXCEPT !.randomKey = key],
                                        first, Len(first)))
                /\ sentFrames = <<FirstFragment(server)>>
                /\ nFed = Len(first)

NextParse ==
    \/ PeerSend
    \/ SocketData

SpecParse == InitParse /\ [][NextParse]_vars

(***************************************************************************)
(* SpecOpen: the parser of SpecParse under the frames of HeaderFrames,     *)
(* followed for as long as the connection is open.                         *)
(***************************************************************************)
PeerSendHeader == PeerSendFrom(HeaderFrames(ws.isPeerMaskingRequired))

\* onData on the open connection, with the record of where the chunk ends
SocketDataOpen ==
    /\ readable /\ ~closed
    /\ ws.isAlive
    /\ \E n \in 1..Len(wire) : \E key \in DropKeys :
         /\ Deliver(n, key)
         /\ cuts' = cuts \cup CutAt(sentFrames, nFed + n)
    /\ UNCHANGED <<handshake, sentFrames, readable, closed, nSends, nPeerSends>>

NextOpen ==
    \/ PeerSendHeader
    \/ SocketDataOpen

SpecOpen == InitParse /\ [][NextOpen]_vars

(***************************************************************************)
(* SpecRoundTrip: a client serializes messages and a server-role parser    *)
(* reads each frame as one chunk.  sentFrames records, for each message,   *)
(* its opcode, its content (the caller's buffer or string), the bytes      *)
(* before the payload in the frame, and the caller's buffer after the      *)
(* call.  A message of 65535 or 65536 bytes is the only one of its run.    *)
(***************************************************************************)
PayloadLengths == {0, 1, 125, 126, 127}

LargePayloadLengths == {65535, 65536}

\* strings of e-acute and a
StringLengths == {0, 1, 2, 3}

BufferOf(n) == [i \in 1..n |-> (i * 7) % 256]

StringOf(n) == [i \in 1..n |-> IF i % 2 = 1 THEN 233 ELSE 97]

InitRoundTrip ==
    /\ ws = Installed(TRUE)
    /\ wire = <<>>
    /\ sentFrames = <<>>
    /\ nFed = 0
    /\ cuts = {}
    /\ readable = TRUE
    /\ closed = FALSE
    /\ nSends = 0
    /\ nPeerSends = 0
    /\ handshake = Upgraded

\* the peer, a client connection, is asked to send: its socket.write of
\* the frame puts the bytes on the wire
PeerWrites(opCode, content, payload, key) ==
    /\ wire' = createMessageFrame(opCode, payload, TRUE, key)
    /\ sentFrames' = Append(sentFrames,
           [opCode |-> opCode, content |-> content, length |-> Len(payload),
            key |-> key,
            header |-> SubSeq(wire', 1, Len(wire') - Len(payload)),
            after |-> payloadArgumentAfter(payload, TRUE, key)])
    /\ nPeerSends' = nPeerSends + 1
    /\ UNCHANGED <<handshake, ws, nFed, cuts, readable, closed, nSends>>

PeerSendBinaryMessage ==
    /\ wire = <<>> /\ nPeerSends < MaxFrames /\ nFed < MaxStream
    /\ \E n \in PayloadLengths : \E key \in RandomKeys :
         LET buffer == BufferOf(n)
         IN  PeerWrites(OPCODE_BINARY_FRAME, buffer, buffer, key)

PeerSendTextMessage ==
    /\ wire = <<>> /\ nPeerSends < MaxFrames /\ nFed < MaxStream
    /\ \E n \in StringLengths : \E key \in RandomKeys :
         PeerWrites(OPCODE_TEXT_FRAME, StringOf(n), Utf8Encode(StringOf(n)), key)

PeerSendLargeBinaryMessage ==
    /\ wire = <<>> /\ nPeerSends = 0
    /\ \E n \in LargePayloadLengths :
         LET buffer == BufferOf(n)
         IN  PeerWrites(OPCODE_BINARY_FRAME, buffer, buffer, PeerKey)

\* the transport hands the frame over as one chunk
SocketDataFrame ==
    /\ wire # <<>>
    /\ Deliver(Len(wire), NoKey)
    /\ UNCHANGED <<handshake, sentFrames, cuts, readable, closed, nSends, nPeerSends>>

NextRoundTrip ==
    \/ PeerSendBinaryMessage
    \/ PeerSendTextMessage
    \/ PeerSendLargeBinaryMessage
    \/ SocketDataFrame

SpecRoundTrip == InitRoundTrip /\ [][NextRoundTrip]_vars

(***************************************************************************)
(* SpecSend: the host's sends and the answers to the peer's pings, on a    *)
(* connection that the host may close and that may time out or fail.       *)
(***************************************************************************)
\* the peer sends a ping, which the connection answers
PeerSendPing ==
    PeerSendFrom({Frame(TRUE, 0, OPCODE_PING, ws.isPeerMaskingRequired, 0, <<>>)})

NextSend ==
    \/ PeerSendPing
    \/ SocketData
    \/ HostSendTextMessage
    \/ HostSendBinaryMessage
    \/ HostSendPing
    \/ HostEnd
    \/ SocketTimeout

SpecSend == Init /\ [][NextSend]_vars

(***************************************************************************)
(* The opening handshake.                                                  *)
(*                                                                         *)
(* A string the code splits is held as what the split gives: a header      *)
(* value that is a list is the sequence of its items after split(',') and  *)
(* trim, a response is its status line and its lines after split(CRLF).    *)
(* A Sec-WebSocket-Key is held with its length as a string and its length  *)
(* as base64-decoded bytes, and a SHA-1 digest as the data it was taken    *)
(* of: two digests are equal exactly when their data are.                  *)
(***************************************************************************)
WEB_SOCKET_GUID == "258EAFA5-E914-47DA-95CA-C5AB0DC85B11"

HANDSHAKE_KEY_SIZE == 16

getBase64Length(sourceStringLength) == ((sourceStringLength + 2) \div 3) * 4

HANDSHAKE_KEY_BASE64_SIZE == getBase64Length(HANDSHAKE_KEY_SIZE)

STATUS_CODE_UPGRADED == 101

\* String.prototype.toLowerCase on the strings of the model
toLowerCase(string) ==
    CASE string = "WebSocket" -> "websocket"
      [] string = "Upgrade" -> "upgrade"
      [] string = "Connection" -> "connection"
      [] string = "Sec-WebSocket-Accept" -> "sec-websocket-accept"
      [] OTHER -> string

\* the empty string, as a key
EmptyKey == [text |-> "", length |-> 0, byteLength |-> 0]

createSHA1HashBase64(data) == [sha1 |-> data]

\* the empty string, as a digest
EmptyDigest == [sha1 |-> <<>>]

\* headers[headerId] || default
headerOr(headers, headerId, default) ==
    IF headerId \in DOMAIN headers THEN headers[headerId] ELSE default

getHttpHeaderAsArray(headers, headerId, lowerCase) ==
    LET stringArray == SelectSeq(headerOr(headers, headerId, <<>>),
                                 LAMBDA it : it # "")
    IN  IF lowerCase
        THEN [i \in 1..Len(stringArray) |-> toLowerCase(stringArray[i])]
        ELSE stringArray

\* Array.prototype.includes
includes(array, string) == \E i \in 1..Len(array) : array[i] = string

\* httpVersionMajor > 1 || (httpVersionMajor === 1 && httpVersionMinor >= 1)
versionAtLeast11(major, minor) == major > 1 \/ (major = 1 /\ minor >= 1)

\* one line 'headerId: headerValue', and the empty line
HeaderLine(headerId, headerValue) ==
    [blank |-> FALSE, colon |-> TRUE, headerId |-> headerId,
     headerValue |-> headerValue]

EmptyLine == [blank |-> TRUE, colon |-> FALSE, headerId |-> "", headerValue |-> <<>>]

\* a line that is not empty and has no colon
OtherLine == [blank |-> FALSE, colon |-> FALSE, headerId |-> "", headerValue |-> <<>>]

\* what a handshake function did: the error or the connection it gave to
\* callback, and what it wrote to the socket
Failed(error) ==
    [error |-> error, connection |-> FALSE, protocol |-> "null", write |-> <<>>]

\* the response of lines 263-267
SwitchingProtocols(secWebSocketKey, protocol) ==
    [statusLine |-> [protocol |-> "HTTP", major |-> 1, minor |-> 1,
                     statusCode |-> STATUS_CODE_UPGRADED],
     lines |-> <<HeaderLine("upgrade", <<"websocket">>),
                 HeaderLine("connection", <<"upgrade">>),
                 HeaderLine("sec-websocket-accept",
                            createSHA1HashBase64(<<secWebSocketKey.text,
                                                   WEB_SOCKET_GUID>>))>>
               \o (IF protocol # "null"
                   THEN <<HeaderLine("sec-websocket-protocol", <<protocol>>)>>
                   ELSE <<>>)]

\* serverUpgradeRequest with the tests of lines 217 and 224 exchanged
serverUpgradeRequestConnectionFirst(request, selected) ==
    LET requestHeaders == request.headers
        upgrades == getHttpHeaderAsArray(requestHeaders, "upgrade", TRUE)
        connections == getHttpHeaderAsArray(requestHeaders, "connection", TRUE)
        secWebSocketKey == headerOr(requestHeaders, "sec-websocket-key", EmptyKey)
    IN  IF request.method # "GET" THEN Failed("ERR_METHOD")
        ELSE IF ~versionAtLeast11(request.httpVersionMajor, request.httpVersionMinor)
        THEN Failed("ERR_HTTP_VERSION")
        ELSE IF ~includes(connections, "upgrade") THEN Failed("ERR_CONNECTION_HEADER")
        ELSE IF ~includes(upgrades, "websocket") THEN Failed("ERR_UPGRADE_HEADER")
        ELSE IF ~(/\ secWebSocketKey.length = HANDSHAKE_KEY_BASE64_SIZE
                  /\ secWebSocketKey.byteLength = HANDSHAKE_KEY_SIZE)
        THEN Failed("ERR_WEBSOCKET_KEY")
        ELSE IF headerOr(requestHeaders, "sec-websocket-version", "") # "13"
        THEN Failed("ERR_WEBSOCKET_VERSION")
        ELSE IF selected.error # NoError THEN Failed(selected.error)
        ELSE [error |-> NoError, connection |-> TRUE,
              protocol |-> selected.protocol,
              write |-> <<SwitchingProtocols(secWebSocketKey, selected.protocol)>>]

\* serverUpgradeRequest(request, socket, {selectProtocol}, callback);
\* selected is what selectProtocol passes to its callback
serverUpgradeRequest(request, selected) ==
    LET requestHeaders == request.headers
        upgrades == getHttpHeaderAsArray(requestHeaders, "upgrade", TRUE)
        connections == getHttpHeaderAsArray(requestHeaders, "connection", TRUE)
        secWebSocketKey == headerOr(requestHeaders, "sec-websocket-key", EmptyKey)
    IN  IF request.method # "GET" THEN Failed("ERR_METHOD")
        ELSE IF ~versionAtLeast11(request.httpVersionMajor, request.httpVersionMinor)
        THEN Failed("ERR_HTTP_VERSION")
        ELSE IF ~includes(upgrades, "websocket") THEN Failed("ERR_UPGRADE_HEADER")
        ELSE IF ~includes(connections, "upgrade") THEN Failed("ERR_CONNECTION_HEADER")
        ELSE IF ~(/\ secWebSocketKey.length = HANDSHAKE_KEY_BASE64_SIZE
                  /\ secWebSocketKey.byteLength = HANDSHAKE_KEY_SIZE)
        THEN Failed("ERR_WEBSOCKET_KEY")
        ELSE IF headerOr(requestHeaders, "sec-websocket-version", "") # "13"
        THEN Failed("ERR_WEBSOCKET_VERSION")
        ELSE IF selected.error # NoError THEN Failed(selected.error)
        ELSE [error |-> NoError, connection |-> TRUE,
              protocol |-> selected.protocol,
              write |-> <<SwitchingProtocols(secWebSocketKey, selected.protocol)>>]

\* the request of lines 78-100
ClientRequest(secWebSocketKey) ==
    [method |-> "GET", httpVersionMajor |-> 1, httpVersionMinor |-> 1,
     headers |-> ("upgrade" :> <<"websocket">>)
                 @@ ("connection" :> <<"keep-alive", "upgrade">>)
                 @@ ("sec-websocket-key" :> secWebSocketKey)
                 @@ ("sec-websocket-version" :> "13")]

\* buffer.toString('utf8').split(CRLF) (line 111): the status line and the
\* lines of the response with the empty line that ends them, and one more
\* element, which is empty unless bytes follow the response in the chunk
splitCRLF(buffer) ==
    [statusLine |-> Head(buffer).statusLine,
     lines |-> Head(buffer).lines \o <<EmptyLine>>
               \o (IF Tail(buffer) = <<>> THEN <<EmptyLine>> ELSE <<OtherLine>>)]

RECURSIVE parseResponseHeaders(_, _)
\* the loop of lines 142-153
parseResponseHeaders(lines, responseHeaders) ==
    IF lines = <<>> \/ Head(lines).blank
    THEN [error |-> NoError, headers |-> responseHeaders]
    ELSE IF ~Head(lines).colon
    THEN [error |-> "ERR_HEADERS", headers |-> responseHeaders]
    ELSE parseResponseHeaders(Tail(lines),
             (toLowerCase(Head(lines).headerId) :> Head(lines).headerValue)
                 @@ responseHeaders)

\* the regular expression of line 115
matchStatusLine(statusLine) ==
    statusLine.protocol = "HTTP" /\ statusLine.statusCode \in 100..599

\* onServerHandshake(buffer) in the closure of a client with this key
\* and these headers options
onServerHandshake(buffer, secWebSocketKey, headers) ==
    LET split == splitCRLF(buffer)
        statusLine == split.statusLine
        parsed == parseResponseHeaders(split.lines, <<>>)
        responseHeaders == parsed.headers
        upgrades == getHttpHeaderAsArray(responseHeaders, "upgrade", TRUE)
        connections == getHttpHeaderAsArray(responseHeaders, "connection", TRUE)
        secWebSocketAccept ==
            headerOr(responseHeaders, "sec-websocket-accept", EmptyDigest)
    IN  IF ~matchStatusLine(statusLine) THEN Failed("ERR_NOT_HTTP_SERVER")
        ELSE IF ~versionAtLeast11(statusLine.major, statusLine.minor)
        THEN Failed("ERR_HTTP_VERSION")
        ELSE IF statusLine.statusCode # STATUS_CODE_UPGRADED
        THEN Failed("ERR_STATUS_CODE_NOT_UPGRADED")
        ELSE IF parsed.error # NoError THEN Failed(parsed.error)
        ELSE IF ~includes(upgrades, "websocket") THEN Failed("ERR_UPGRADE_HEADER")
        ELSE IF ~includes(connections, "upgrade") THEN Failed("ERR_CONNECTION_HEADER")
        ELSE IF secWebSocketAccept
                  # createSHA1HashBase64(<<secWebSocketKey.text, WEB_SOCKET_GUID>>)
        THEN Failed("ERR_INVALID_ACCEPT")
        ELSE [error |-> NoError, connection |-> TRUE,
              protocol |-> headerOr(headers, "sec-websocket-protocol", "null"),
              write |-> <<>>]

(***************************************************************************)
(* SpecHandshake: the handshake of a client (createClientConnection from   *)
(* the moment its socket exists) or of a server (serverUpgradeRequest),    *)
(* and the connection it creates.  handshake holds the handshake's         *)
(* listeners on the socket, what the library wrote to the socket, the      *)
(* calls of callback and, as history, the request or response it examined. *)
(* The response arrives whole, as the first element of wire, and the bytes *)
(* of the frames the server sent right after it follow.                    *)
(***************************************************************************)
NoConnection == "null"

\* what Crypto.randomBytes(HANDSHAKE_KEY_SIZE).toString('base64') may be
ClientKeys ==
    { [text |-> "a2V5IG9uZSBvZiB0d28uLi4=", length |-> 24, byteLength |-> 16],
      [text |-> "a2V5IHR3byBvZiB0d28uLi4=", length |-> 24, byteLength |-> 16] }

\* the Sec-WebSocket-Key values of requests: one of a client, one that is
\* too short and one of 24 characters that decode to 15 bytes
RequestKeys ==
    ClientKeys
    \cup { [text |-> "c2hvcnQ=", length |-> 8, byteLength |-> 5],
           [text |-> "a2V5IG9uZSBvZiB0d28uLg===", length |-> 24, byteLength |-> 15] }

Requests ==
    { [method |-> method, httpVersionMajor |-> 1, httpVersionMinor |-> minor,
       headers |-> ("upgrade" :> upgrade) @@ ("connection" :> connection)
                   @@ ("sec-websocket-key" :> key)
                   @@ ("sec-websocket-version" :> version)] :
        method \in {"GET", "POST"}, minor \in {0, 1},
        upgrade \in {<<"WebSocket">>, <<"h2c">>},
        connection \in {<<"keep-alive", "Upgrade">>, <<"keep-alive">>},
        key \in RequestKeys, version \in {"13", "8"} }
    \cup { [method |-> "GET", httpVersionMajor |-> 1, httpVersionMinor |-> 1,
            headers |-> <<>>] }

\* what the host's selectProtocol passes to its callback
Selections ==
    { [error |-> NoError, protocol |-> "null"],
      [error |-> NoError, protocol |-> "chat"],
      [error |-> "ERR_NO_PROTOCOL", protocol |-> "null"] }

Responses(secWebSocketKey) ==
    { [statusLine |-> [protocol |-> protocol, major |-> 1, minor |-> minor,
                       statusCode |-> statusCode],
       lines |-> other \o upgrade \o connection \o accept] :
        protocol \in {"HTTP", "SSH"}, minor \in {0, 1}, statusCode \in {101, 200},
        other \in {<<>>, <<OtherLine>>},
        upgrade \in {<<HeaderLine("Upgrade", <<"WebSocket">>)>>, <<>>},
        connection \in {<<HeaderLine("Connection", <<"Upgrade">>)>>,
                        <<HeaderLine("Connection", <<"close">>)>>},
        accept \in {<<HeaderLine("Sec-WebSocket-Accept",
                        createSHA1HashBase64(<<secWebSocketKey.text,
                                               WEB_SOCKET_GUID>>))>>,
                    <<HeaderLine("Sec-WebSocket-Accept",
                        createSHA1HashBase64(<<"", WEB_SOCKET_GUID>>))>>} }
    \cup { SwitchingProtocols(secWebSocketKey, "null") }

\* the frames a server sends right after its response: none, or a text
\* message
FramesAfterResponse ==
    { <<>>, <<Frame(TRUE, 0, OPCODE_TEXT_FRAME, FALSE, 0, <<72, 105>>)>> }

InitHandshake ==
    /\ ws = NoConnection
    /\ wire = <<>>
    /\ sentFrames = <<>>
    /\ nFed = 0
    /\ cuts = {}
    /\ readable = TRUE
    /\ closed = FALSE
    /\ nSends = 0
    /\ nPeerSends = 0
    /\ \/ \E key \in ClientKeys :
            handshake = [role |-> "client", phase |-> "connecting",
                         secWebSocketKey |-> key, listeners |-> {"end", "error"},
                         written |-> <<>>, calls |-> <<>>, input |-> <<>>]
       \/ handshake = [role |-> "server", phase |-> "listening",
                       secWebSocketKey |-> EmptyKey, listeners |-> {},
                       written |-> <<>>, calls |-> <<>>, input |-> <<>>]

\* callback(error, webSocketConnection, protocol): the call is recorded, and
\* the host installs its handlers on the connection it is given
Callback(result, input) ==
    /\ handshake' = [handshake EXCEPT
           !.phase = "done",
           !.listeners = {},
           !.written = @ \o result.write,
           !.calls = Append(@, [error |-> result.error,
                                connection |-> result.connection,
                                protocol |-> result.protocol]),
           !.input = Append(@, input)]
    /\ ws' = IF result.connection
             THEN Installed(handshake.role = "server")
             ELSE ws

\* onConnected (lines 77-101)
SocketConnect ==
    /\ handshake.role = "client" /\ handshake.phase = "connecting"
    /\ ~closed
    /\ handshake' = [handshake EXCEPT
           !.phase = "requested",
           !.listeners = @ \cup {"data"},
           !.written = Append(@, ClientRequest(handshake.secWebSocketKey))]
    /\ UNCHANGED <<ws, wire, sentFrames, nFed, cuts, readable, closed, nSends,
                   nPeerSends>>

\* the server answers the request, and may send a frame at once
ServerResponds ==
    /\ handshake.role = "client" /\ handshake.phase = "requested"
    /\ readable /\ ~closed
    /\ nPeerSends = 0
    /\ \E response \in Responses(handshake.secWebSocketKey) :
       \E frames \in FramesAfterResponse :
         /\ wire' = <<response>>
                    \o (IF frames = <<>> THEN <<>> ELSE FrameBytes(frames[1]))
         /\ sentFrames' = frames
    /\ nPeerSends' = 1
    /\ UNCHANGED <<ws, nFed, cuts, readable, closed, nSends, handshake>>

\* socket.on('data', onServerHandshake): the chunk holds the response and
\* the first n - 1 bytes that follow it
SocketDataHandshake ==
    /\ "data" \in handshake.listeners
    /\ readable /\ ~closed
    /\ \E n \in 1..Len(wire) :
         /\ Callback(onServerHandshake(SubSeq(wire, 1, n),
                                       handshake.secWebSocketKey, <<>>),
                     Head(wire))
         /\ wire' = SubSeq(wire, n + 1, Len(wire))
    /\ UNCHANGED <<sentFrames, nFed, cuts, readable, closed, nSends, nPeerSends>>

\* socket.on('end', onHandshakeEnd) (lines 184-186): the server closes its
\* side of the connected socket without an answer
SocketEndHandshake ==
    /\ "end" \in handshake.listeners
    /\ handshake.phase = "requested"
    /\ readable /\ ~closed
    /\ wire = <<>>
    /\ handshake' = [handshake EXCEPT
           !.calls = Append(@, [error |-> "ERR_SOCKET_CLOSED_DURING_HANDSHAKE",
                                connection |-> FALSE, protocol |-> "null"])]
    /\ readable' = FALSE
    /\ UNCHANGED <<ws, wire, sentFrames, nFed, cuts, closed, nSends, nPeerSends>>

\* socket.on('error', onHandshakeError) (lines 188-190); the socket is
\* closed after its 'error'
SocketErrorHandshake ==
    /\ "error" \in handshake.listeners
    /\ ~closed
    /\ handshake' = [handshake EXCEPT
           !.calls = Append(@, [error |-> "error", connection |-> FALSE,
                                protocol |-> "null"])]
    /\ readable' = FALSE
    /\ closed' = TRUE
    /\ wire' = <<>>
    /\ UNCHANGED <<ws, sentFrames, nFed, cuts, nSends, nPeerSends>>

\* the 'upgrade' event of the host's HTTP server, which calls
\* serverUpgradeRequest (example lines 48-49)
UpgradeRequest ==
    /\ handshake.role = "server" /\ handshake.phase = "listening"
    /\ \E request \in Requests : \E selected \in Selections :
         Callback(serverUpgradeRequest(request, selected),
                  [request |-> request, selected |-> selected])
    /\ UNCHANGED <<wire, sentFrames, nFed, cuts, readable, closed, nSends,
                   nPeerSends>>

\* socket.on('data', onData) of the connection the handshake created
SocketDataUpgraded ==
    /\ \E i \in DOMAIN handshake.calls : handshake.calls[i].connection
    /\ readable /\ ~closed
    /\ \E n \in 1..Len(wire) : Deliver(n, NoKey)
    /\ UNCHANGED <<sentFrames, cuts, readable, closed, nSends, nPeerSends,
                   handshake>>

NextHandshake ==
    \/ SocketConnect
    \/ ServerResponds
    \/ SocketDataHandshake
    \/ SocketEndHandshake
    \/ SocketErrorHandshake
    \/ UpgradeRequest
    \/ SocketDataUpgraded

SpecHandshake == InitHandshake /\ [][NextHandshake]_vars

(***************************************************************************)
(* SpecHeader: readDataFrameHeader on one chunk that holds a frame header  *)
(* or the first bytes of one, handed to a new connection of either role.   *)
(* The headers take every reserved-bit pattern of HeaderReserved, the      *)
(* opcodes of HeaderOpCodes, both values of the mask bit and the three     *)
(* forms of the length, and the chunk ends after any of their bytes.       *)
(* sentFrames keeps the chunk.                                             *)
(***************************************************************************)
\* no reserved bit, RSV1 (bit 6 of byte 0) and RSV3 (bit 4)
HeaderReserved == {0, 64, 16}

\* a data opcode, an opcode without a case, close and ping
HeaderOpCodes == {OPCODE_TEXT_FRAME, 3, OPCODE_CONNECTION_CLOSE, OPCODE_PING}

\* the header of an empty frame: the length is 0 in the 7-bit, the 16-bit
\* or the 64-bit form
EmptyFrameHeader(rsv, opCode, masked, payloadLength7) ==
    <<128 + rsv + opCode, (IF masked THEN 128 ELSE 0) + payloadLength7>>
    \o (IF payloadLength7 = 126 THEN <<0, 0>>
        ELSE IF payloadLength7 = 127 THEN <<0, 0, 0, 0, 0, 0, 0, 0>>
        ELSE <<>>)
    \o (IF masked THEN PeerKey ELSE <<>>)

HeaderChunks ==
    UNION { { SubSeq(EmptyFrameHeader(rsv, opCode, masked, payloadLength7), 1, n) :
                n \in 1..Len(EmptyFrameHeader(rsv, opCode, masked, payloadLength7)) } :
            rsv \in HeaderReserved, opCode \in HeaderOpCodes,
            masked \in BOOLEAN, payloadLength7 \in {0, 126, 127} }

InitHeader ==
    /\ ws \in {Installed(TRUE), Installed(FALSE)}
    /\ wire = <<>>
    /\ sentFrames = <<>>
    /\ nFed = 0
    /\ cuts = {}
    /\ readable = TRUE
    /\ closed = FALSE
    /\ nSends = 0
    /\ nPeerSends = 0
    /\ handshake = Upgraded

\* the peer writes the bytes of one chunk
PeerWritesHeader ==
    /\ wire = <<>> /\ nPeerSends = 0
    /\ \E buffer \in HeaderChunks :
         /\ wire' = buffer
         /\ sentFrames' = <<[header |-> buffer]>>
    /\ nPeerSends' = 1
    /\ UNCHANGED <<handshake, ws, nFed, cuts, readable, closed, nSends>>

\* socket.on('data', onData) with all of them
SocketDataHeader ==
    /\ readable /\ ~closed
    /\ wire # <<>>
    /\ \E key \in DropKeys : Deliver(Len(wire), key)
    /\ UNCHANGED <<handshake, sentFrames, cuts, readable, closed, nSends, nPeerSends>>

NextHeader ==
    \/ PeerWritesHeader
    \/ SocketDataHeader

SpecHeader == InitHeader /\ [][NextHeader]_vars

(***************************************************************************)
(* What the host and the transport have seen of the connection, read from  *)
(* ws.trace.                                                               *)
(***************************************************************************)
TraceOf(kinds) == SelectSeq(ws.trace, LAMBDA e : e.k \in kinds)

IsCloseFrame(frame) ==
    frame # <<>> /\ LowBits(frame[1], 4) = OPCODE_CONNECTION_CLOSE

\* the close frames createCloseFrame can make of a status code
CloseFramesOf(code) ==
    { createCloseFrame(code, ws.toMaskOwnMessages, key) : key \in RandomKeys \cup {NoKey} }

CloseWrites == SelectSeq(ws.trace, LAMBDA e : e.k = "write" /\ IsCloseFrame(e.data))

\* the arguments of each call of dropConnection in the source
DropTriggers ==
    { <<"CONNECTION_CLOSED", 1000, NoError>>,
      <<"NETWORK_ERROR", 1011, "error">>,
      <<"TIMEOUT", 1008, NoError>>,
      <<"CLOSED_BY_SELF", 1000, NoError>>,
      <<"CLOSED_BY_PEER", 1000, NoError>>,
      <<"ERR_INAVLID_DATA_FRAME_H2", 1002, NoError>>,
      <<"ERR_INAVLID_DATA_FRAME_P16", 1002, NoError>>,
      <<"ERR_INAVLID_DATA_FRAME_P64", 1002, NoError>>,
      <<"ERR_MASKING_KEY_MISSING", 1002, NoError>>,
      <<"ERR_BAD_CONTINUE_OPCODE", 1002, NoError>>,
      <<"ERR_BAD_DATA_OPCODE", 1002, NoError>>,
      <<"INVALID_EXTENSION", 1003, NoError>>,
      <<"ERR_UNSUPPORTED_OPCODE", 1003, NoError>>,
      <<"ERR_PEER_MASKING_DISABLED", 1008, NoError>> }

(***************************************************************************)
(* C1: over any sequence of inbound chunks, transport events and host      *)
(* calls of end(), onEnd is invoked at most once, also when termination    *)
(* triggers follow one another or come re-entrantly from inside a host     *)
(* callback.                                                               *)
(***************************************************************************)
C1_OnEndAtMostOnce == Len(TraceOf({"on_end"})) <= 1

\* the host called end() inside its text handler while the connection was
\* open, onEnd ran (and called end() again), and later the transport
\* emitted 'close'
C1_Witness ==
    /\ closed
    /\ Len(TraceOf({"on_end"})) = 1
    /\ \E i \in 1..Len(ws.trace) - 3 :
         /\ ws.trace[i].k = "on_text" /\ ws.trace[i].open
         /\ ws.trace[i + 3].k = "on_end"
         /\ ws.trace[i + 3].app = "CLOSED_BY_SELF"

(***************************************************************************)
(* C2: after onEnd has been invoked no host callback (onTextMessage,       *)
(* onBinaryMessage, onSync) is invoked any more, whatever chunks arrive    *)
(* afterwards and whatever is left of the chunk in which the drop          *)
(* happened.                                                               *)
(***************************************************************************)
C2_NoCallbackAfterOnEnd ==
    \A i, j \in 1..Len(ws.trace) :
        (i < j /\ ws.trace[i].k = "on_end")
            => ws.trace[j].k \notin {"on_text", "on_binary", "on_sync"}

(***************************************************************************)
(* C9: isOpen() starts true and never turns from false to true; the close  *)
(* frames written and the half-closes of the transport are both none while *)
(* isOpen() and both exactly one once it is false; a drop attempted on a   *)
(* dead connection writes nothing and changes no state.                    *)
(***************************************************************************)
C9_Counts ==
    /\ ws.isAlive => Len(CloseWrites) = 0 /\ Len(TraceOf({"end"})) = 0
    /\ ~ws.isAlive => Len(CloseWrites) = 1 /\ Len(TraceOf({"end"})) = 1

\* a step that hands no chunk to the connection is the host's end(), a
\* setter or a transport event
C9_OneShot ==
    /\ ws.isAlive
    /\ [](C9_Counts)
    /\ [][/\ ~ws.isAlive => ~ws'.isAlive
          /\ (~ws.isAlive /\ nFed' = nFed) => ws' = ws]_vars

\* the connection was dropped by a timeout, and then the transport emitted
\* 'close' on the dead connection
C9_Witness ==
    /\ ~ws.isAlive /\ closed
    /\ Len(CloseWrites) = 1
    /\ CloseWrites[1].data \in CloseFramesOf(1008)

(***************************************************************************)
(* C10: in the one effective drop isAlive becomes false, then the close    *)
(* frame with the drop's status code is written, then the transport is     *)
(* half-closed, and only then onEnd is invoked, with the app code, status  *)
(* code and error of one trigger; isOpen() is false inside onEnd, and a    *)
(* later trigger never replaces what onEnd was given.                      *)
(***************************************************************************)
C10_Order ==
    \A i \in 1..Len(ws.trace) :
        /\ ws.trace[i].k = "end" =>
              /\ i > 1
              /\ ws.trace[i - 1].k = "write"
              /\ IsCloseFrame(ws.trace[i - 1].data)
              /\ ~ws.trace[i - 1].open
              /\ ~ws.trace[i].open
              /\ ws.onEnd => (i < Len(ws.trace) /\ ws.trace[i + 1].k = "on_end")
        /\ ws.trace[i].k = "on_end" =>
              /\ i > 2
              /\ ws.trace[i - 1].k = "end"
              /\ ws.trace[i - 2].data \in CloseFramesOf(ws.trace[i].code)
              /\ ~ws.trace[i].open
              /\ <<ws.trace[i].app, ws.trace[i].code, ws.trace[i].err>> \in DropTriggers

C10_DropSequence ==
    /\ [](C10_Order)
    /\ [][TraceOf({"on_end"}) # <<>> =>
             TraceOf({"on_end"})' = TraceOf({"on_end"})]_vars

\* onEnd was given the arguments of the transport's error, and afterwards
\* the transport emitted 'close', a trigger with other arguments
C10_Witness ==
    /\ closed
    /\ \E i \in 3..Len(ws.trace) :
         /\ ws.trace[i].k = "on_end"
         /\ ws.trace[i].app = "NETWORK_ERROR"
         /\ ws.trace[i].code = 1011
         /\ ws.trace[i].err = "error"
         /\ ws.trace[i - 1].k = "end"
         /\ ws.trace[i - 2].data \in CloseFramesOf(1011)

(***************************************************************************)
(* The stream the peer has sent, as the peer knows it.                     *)
(***************************************************************************)
RECURSIVE StreamBytes(_)
StreamBytes(frames) ==
    IF frames = <<>> THEN <<>>
    ELSE FrameBytes(Head(frames)) \o StreamBytes(Tail(frames))

RECURSIVE FrameAt(_, _)
\* the frame that starts at stream offset p, as a sequence of one frame, or
\* the empty sequence
FrameAt(frames, p) ==
    IF frames = <<>> \/ p < 0 THEN <<>>
    ELSE IF p = 0 THEN <<Head(frames)>>
    ELSE FrameAt(Tail(frames), p - Len(FrameBytes(Head(frames))))

\* the host's data and end callbacks with their arguments
RECURSIVE HostCalls(_)
HostCalls(trace) ==
    IF trace = <<>> THEN <<>>
    ELSE LET e == Head(trace)
         IN  (IF e.k \in {"on_text", "on_binary", "on_end"}
              THEN <<[k |-> e.k, data |-> e.data, app |-> e.app,
                      code |-> e.code, err |-> e.err]>>
              ELSE <<>>) \o HostCalls(Tail(trace))

\* the messages of a sequence of data frames that are complete within its
\* first n bytes; op and acc are the opcode and the payload of the message
\* under way
RECURSIVE Messages(_, _, _, _)
Messages(frames, n, op, acc) ==
    IF frames = <<>> \/ n < Len(FrameBytes(Head(frames))) THEN <<>>
    ELSE LET f == Head(frames)
             op2 == IF f.opCode = OPCODE_CONTINUATION_FRAME THEN op ELSE f.opCode
             acc2 == acc \o f.payload
             rest == n - Len(FrameBytes(f))
         IN  IF f.fin
             THEN <<[k |-> IF op2 = OPCODE_TEXT_FRAME THEN "on_text" ELSE "on_binary",
                     data |-> IF op2 = OPCODE_TEXT_FRAME THEN Utf8Decode(acc2) ELSE acc2,
                     app |-> "", code |-> 0, err |-> NoError]>>
                  \o Messages(Tail(frames), rest, 0, <<>>)
             ELSE Messages(Tail(frames), rest, op2, acc2)

\* frames is a sequence of data frames a peer of this role may send: a text
\* or binary frame, then continuation frames up to the one with fin
RECURSIVE DataFrames(_, _)
DataFrames(frames, inMessage) ==
    \/ frames = <<>>
    \/ LET f == Head(frames)
       IN  /\ f.rsv = 0
           /\ ws.isPeerMaskingRequired => f.masked
           /\ IF inMessage THEN f.opCode = OPCODE_CONTINUATION_FRAME
              ELSE f.opCode \in {OPCODE_TEXT_FRAME, OPCODE_BINARY_FRAME}
           /\ DataFrames(Tail(frames), ~f.fin)

(***************************************************************************)
(* C3: however the inbound stream is cut into chunks, the host callbacks   *)
(* onTextMessage, onBinaryMessage and onEnd and their arguments are the    *)
(* same; they are those of the stream arriving as one chunk.               *)
(***************************************************************************)
C3_SameAsOneChunk ==
    nFed > 0 =>
        HostCalls(ws.trace) =
            HostCalls(onData([Installed(ws.isPeerMaskingRequired) EXCEPT
                                  !.randomKey = NoKey],
                             SubSeq(StreamBytes(sentFrames), 1, nFed), nFed).trace)

(***************************************************************************)
(* C4: when the header of each data frame lies in one chunk and the        *)
(* payloads are spread over any chunks, each message is delivered exactly  *)
(* once, not before the chunk with its last payload byte, and with the     *)
(* unsplit payload: the masking index runs on over chunk boundaries.       *)
(***************************************************************************)
C4_PayloadSplit ==
    ("header" \notin cuts /\ DataFrames(sentFrames, FALSE))
        => /\ HostCalls(ws.trace) = Messages(sentFrames, nFed, 0, <<>>)
           /\ ws.isAlive

\* a server has delivered a masked binary message whose payload came in two
\* chunks
C4_Witness ==
    /\ ws.isPeerMaskingRequired
    /\ cuts = {"payload"}
    /\ sentFrames = <<Frame(TRUE, 0, OPCODE_BINARY_FRAME, TRUE, 2, <<195, 40>>)>>
    /\ HostCalls(ws.trace) =
           <<[k |-> "on_binary", data |-> <<195, 40>>, app |-> "", code |-> 0,
              err |-> NoError]>>

(***************************************************************************)
(* C5: every message given to onTextMessage or onBinaryMessage was formed  *)
(* from one text or binary frame followed by continuation frames of which  *)
(* only the last has fin; the callback is that of the first frame's opcode *)
(* and the payload is the concatenation, in order, of the unmasked         *)
(* payloads of those frames.                                               *)
(***************************************************************************)
RECURSIVE UnmaskedPayloads(_)
UnmaskedPayloads(frames) ==
    IF frames = <<>> THEN <<>>
    ELSE LET f == Head(frames)
         IN  (IF f.masked THEN MaskPayload(f.raw, f.key) ELSE f.raw)
             \o UnmaskedPayloads(Tail(frames))

C5_MessageFrames ==
    \A i \in 1..Len(ws.trace) :
        LET e == ws.trace[i]
            fr == e.frames
        IN  e.k \in {"on_text", "on_binary"} =>
              /\ fr # <<>>
              /\ fr[1].opCode = (IF e.k = "on_text" THEN OPCODE_TEXT_FRAME
                                 ELSE OPCODE_BINARY_FRAME)
              /\ \A j \in 2..Len(fr) : fr[j].opCode = OPCODE_CONTINUATION_FRAME
              /\ \A j \in 1..Len(fr) :
                    /\ fr[j].fin <=> j = Len(fr)
                    /\ Len(fr[j].raw) = fr[j].length
              /\ e.data = (IF e.k = "on_text" THEN Utf8Decode(UnmaskedPayloads(fr))
                           ELSE UnmaskedPayloads(fr))

\* the two fragments of a text message with a ping between them have been
\* delivered as one message
C5_Witness ==
    /\ Len(sentFrames) = 3
    /\ sentFrames[1] = FirstFragment(ws.isPeerMaskingRequired)
    /\ sentFrames[2].opCode = OPCODE_PING
    /\ sentFrames[3] = LastFragment(ws.isPeerMaskingRequired)
    /\ \E i \in 1..Len(ws.trace) :
         /\ ws.trace[i].k = "on_text"
         /\ ws.trace[i].data = <<233>>
         /\ Len(ws.trace[i].frames) = 2

(***************************************************************************)
(* A step in which the open connection reads a chunk as a frame header:    *)
(* the chunk starts where a frame of the peer starts, FrameRead, and holds *)
(* ChunkLength bytes.                                                      *)
(***************************************************************************)
ReadsHeader ==
    /\ ws.isAlive /\ ws.remainingLength = 0
    /\ nFed' > nFed
    /\ FrameAt(sentFrames, nFed) # <<>>

FrameRead == FrameAt(sentFrames, nFed)[1]

ChunkLength == nFed' - nFed

\* what the step added to the trace, after the onSync of the chunk
NewEffects ==
    LET new == SubSeq(ws'.trace, Len(ws.trace) + 1, Len(ws'.trace))
    IN  IF new # <<>> /\ new[1].k = "on_sync" THEN Tail(new) ELSE new

\* the step dropped the connection with these codes and did nothing else
Dropped(appCode, statusCode) ==
    /\ ~ws'.isAlive
    /\ Len(NewEffects) = 3
    /\ NewEffects[1].k = "write"
    /\ NewEffects[1].data \in CloseFramesOf(statusCode)
    /\ NewEffects[2].k = "end"
    /\ NewEffects[3].k = "on_end"
    /\ NewEffects[3].app = appCode
    /\ NewEffects[3].code = statusCode
    /\ NewEffects[3].err = NoError

\* a message is in progress: a first data frame has been accepted and the
\* frame with fin has not been completed
InProgress == ws.consumed # <<>>

(***************************************************************************)
(* C6: with peer masking required (the server role) a frame whose mask bit *)
(* is clear drops the connection with 1008 ERR_PEER_MASKING_DISABLED and   *)
(* nothing of its payload reaches a data callback; without (the client     *)
(* role) an unmasked frame is accepted.                                    *)
(***************************************************************************)
C6_NoUnmaskedDelivery ==
    ws.isPeerMaskingRequired =>
        \A i \in 1..Len(ws.trace) : \A j \in 1..Len(ws.trace[i].frames) :
            ws.trace[i].frames[j].masked

C6_ServerDrops ==
    (/\ ReadsHeader /\ ChunkLength >= 2
     /\ ws.isPeerMaskingRequired /\ ~FrameRead.masked /\ FrameRead.rsv = 0)
        => Dropped("ERR_PEER_MASKING_DISABLED", 1008)

\* the unmasked message of one frame is delivered first of all, on the open
\* connection
C6_ClientAccepts ==
    (/\ ReadsHeader /\ ChunkLength >= Len(FrameBytes(FrameRead))
     /\ ~ws.isPeerMaskingRequired /\ ~FrameRead.masked
     /\ FrameRead.rsv = 0 /\ FrameRead.fin
     /\ FrameRead.opCode \in {OPCODE_TEXT_FRAME, OPCODE_BINARY_FRAME}
     /\ ~InProgress)
        => /\ NewEffects # <<>>
           /\ NewEffects[1].open
           /\ HostCalls(<<NewEffects[1]>>) =
                  Messages(<<FrameRead>>, Len(FrameBytes(FrameRead)), 0, <<>>)
           /\ ChunkLength = Len(FrameBytes(FrameRead)) => ws'.isAlive

C7_InProgressFlag == ws.isReadingMessage <=> InProgress

C7_BadOpCodeDrops ==
    (/\ ReadsHeader /\ ChunkLength >= Len(HeaderBytes(FrameRead))
     /\ FrameRead.rsv = 0
     /\ ws.isPeerMaskingRequired => FrameRead.masked)
        => /\ (FrameRead.opCode = OPCODE_CONTINUATION_FRAME /\ ~InProgress)
                 => Dropped("ERR_BAD_CONTINUE_OPCODE", 1002)
           /\ (/\ FrameRead.opCode \in {OPCODE_TEXT_FRAME, OPCODE_BINARY_FRAME}
               /\ InProgress)
                 => Dropped("ERR_BAD_DATA_OPCODE", 1002)

C8_BadHeaderDrops ==
    /\ (ReadsHeader /\ ChunkLength >= 2 /\ FrameRead.rsv # 0)
          => Dropped("INVALID_EXTENSION", 1003)
    /\ (/\ ReadsHeader /\ ChunkLength >= Len(HeaderBytes(FrameRead))
        /\ FrameRead.rsv = 0
        /\ ws.isPeerMaskingRequired => FrameRead.masked
        /\ FrameRead.opCode \notin {0, 1, 2, 8, 9, 10})
          => Dropped("ERR_UNSUPPORTED_OPCODE", 1003)

C8_Unsupported == [][C8_BadHeaderDrops]_vars

\* the connection has read a frame with only RSV3 set and has been dropped
C8_Witness ==
    /\ Len(sentFrames) = 1
    /\ sentFrames[1].rsv = 1
    /\ nFed >= 2
    /\ "header" \notin cuts
    /\ HostCalls(ws.trace) =
           <<[k |-> "on_end", data |-> <<>>, app |-> "INVALID_EXTENSION",
              code |-> 1003, err |-> NoError]>>

(***************************************************************************)
(* C11: on an open connection the transport's 'end', 'close', 'error' and  *)
(* 'timeout' drop it with 1000, 1000, 1011 and 1008 (onEnd is given the    *)
(* error of 'error'), and the host's end() drops it with 1000              *)
(* CLOSED_BY_SELF; the trigger that comes first sets the codes, the later  *)
(* ones have no effect.                                                    *)
(***************************************************************************)
\* the step dropped the connection with these arguments and did nothing
\* else; onEnd is invoked if it is installed
DroppedWith(appCode, statusCode, error) ==
    /\ ~ws'.isAlive
    /\ Len(NewEffects) = (IF ws.onEnd THEN 3 ELSE 2)
    /\ NewEffects[1].k = "write"
    /\ NewEffects[1].data \in CloseFramesOf(statusCode)
    /\ NewEffects[2].k = "end"
    /\ ws.onEnd =>
          /\ NewEffects[3].k = "on_end"
          /\ NewEffects[3].app = appCode
          /\ NewEffects[3].code = statusCode
          /\ NewEffects[3].err = error

C11_FirstTrigger ==
    ws.isAlive =>
        /\ SocketEnd => DroppedWith("CONNECTION_CLOSED", 1000, NoError)
        /\ SocketClose => DroppedWith("CONNECTION_CLOSED", 1000, NoError)
        /\ SocketError => DroppedWith("NETWORK_ERROR", 1011, "error")
        /\ SocketTimeout => DroppedWith("TIMEOUT", 1008, NoError)
        /\ HostEnd => DroppedWith("CLOSED_BY_SELF", 1000, NoError)

C11_LaterTrigger ==
    ~ws.isAlive =>
        /\ (SocketEnd \/ SocketClose \/ SocketError \/ SocketTimeout \/ HostEnd)
              => ws' = ws
        /\ CloseWrites' = CloseWrites
        /\ TraceOf({"on_end"})' = TraceOf({"on_end"})

C11_Triggers == [][C11_FirstTrigger /\ C11_LaterTrigger]_vars

\* the host's end() dropped the open connection before anything was read,
\* and afterwards the transport emitted 'error' or 'end', and 'close'
C11_Witness ==
    /\ closed
    /\ nFed = 0
    /\ HostCalls(ws.trace) =
           <<[k |-> "on_end", data |-> <<>>, app |-> "CLOSED_BY_SELF",
              code |-> 1000, err |-> NoError]>>

(***************************************************************************)
(* C12: a close frame that passes the header checks on an open connection  *)
(* drops it with 1000 CLOSED_BY_PEER: the close frame is echoed, the       *)
(* socket is ended, onEnd is called with CLOSED_BY_PEER and nothing else   *)
(* happens, so no data callback fires and a message in progress is not     *)
(* delivered; the connection is not open afterwards.                       *)
(***************************************************************************)
\* the step reads a complete header that passes the reserved-bit and
\* masking checks
ReadsValidHeader ==
    /\ ReadsHeader
    /\ ChunkLength >= Len(HeaderBytes(FrameRead))
    /\ FrameRead.rsv = 0
    /\ ws.isPeerMaskingRequired => FrameRead.masked

C12_CloseDrops ==
    (ReadsValidHeader /\ FrameRead.opCode = OPCODE_CONNECTION_CLOSE)
        => /\ Dropped("CLOSED_BY_PEER", 1000)
           /\ TraceOf({"on_text", "on_binary"})' = TraceOf({"on_text", "on_binary"})

C12_CloseFrame == [][C12_CloseDrops]_vars

\* a close frame arrived while a fragmented message was in progress: the
\* host saw onEnd with CLOSED_BY_PEER and no message
C12_Witness ==
    /\ ~ws.isAlive
    /\ ws.isReadingMessage
    /\ Len(sentFrames) = 2
    /\ sentFrames[2].opCode = OPCODE_CONNECTION_CLOSE
    /\ HostCalls(ws.trace) =
           <<[k |-> "on_end", data |-> <<>>, app |-> "CLOSED_BY_PEER",
              code |-> 1000, err |-> NoError]>>

(***************************************************************************)
(* C13: a ping that passes the header checks causes exactly one write, of  *)
(* the pong 8a 80 00 00 00 00 in the client role and 8a 00 in the server   *)
(* role, and no callback; a pong causes no write and no callback; the      *)
(* connection never writes more pongs than it was sent pings.              *)
(***************************************************************************)
PongOf(toMask) == IF toMask THEN <<138, 128, 0, 0, 0, 0>> ELSE <<138, 0>>

PongWrites ==
    SelectSeq(ws.trace,
              LAMBDA e : e.k = "write" /\ e.data = PongOf(ws.toMaskOwnMessages))

PingsSent ==
    { i \in 1..Len(sentFrames) : sentFrames[i].opCode = OPCODE_PING }

C13_PingStep ==
    (ReadsValidHeader /\ FrameRead.opCode = OPCODE_PING)
        => /\ ws'.isAlive
           /\ Len(NewEffects) = 1
           /\ NewEffects[1].k = "write"
           /\ NewEffects[1].data = PongOf(ws.toMaskOwnMessages)

C13_PongStep ==
    (ReadsValidHeader /\ FrameRead.opCode = OPCODE_PONG)
        => /\ ws'.isAlive
           /\ NewEffects = <<>>

C13_OnlyPongs ==
    /\ Len(PongWrites) <= Cardinality(PingsSent)
    /\ \A i \in 1..Len(ws.trace) :
          ws.trace[i].k = "write" =>
              \/ ws.trace[i].data = PongOf(ws.toMaskOwnMessages)
              \/ IsCloseFrame(ws.trace[i].data)

C13_PingPong == [](C13_OnlyPongs) /\ [][C13_PingStep /\ C13_PongStep]_vars

\* a client has answered a ping with the masked pong and is open, and the
\* host saw nothing
C13_Witness ==
    /\ ws.isAlive
    /\ ws.toMaskOwnMessages
    /\ HostCalls(ws.trace) = <<>>
    /\ Len(PongWrites) = 1
    /\ nFed = 2

(***************************************************************************)
(* C14: reading a ping or a pong between the fragments of a message leaves *)
(* isReadingMessage, payloadOpCode, payloadBuffers and remainingLength as  *)
(* they were, and the message its continuation completes is delivered with *)
(* the payload of the data fragments only.                                 *)
(***************************************************************************)
C14_ControlStep ==
    (ReadsValidHeader /\ FrameRead.opCode \in {OPCODE_PING, OPCODE_PONG})
        => /\ ws'.isReadingMessage = ws.isReadingMessage
           /\ ws'.payloadOpCode = ws.payloadOpCode
           /\ ws'.payloadBuffers = ws.payloadBuffers
           /\ ws'.remainingLength = ws.remainingLength

\* the peer sent a first fragment, a ping or a pong, and the last fragment
Interleaved ==
    /\ Len(sentFrames) = 3
    /\ sentFrames[1] = FirstFragment(ws.isPeerMaskingRequired)
    /\ sentFrames[2].opCode \in {OPCODE_PING, OPCODE_PONG}
    /\ sentFrames[3] = LastFragment(ws.isPeerMaskingRequired)

\* the fragments c3 and a9 are the UTF-8 encoding of U+00E9
C14_Delivered ==
    Interleaved =>
        \A i \in 1..Len(HostCalls(ws.trace)) :
            HostCalls(ws.trace)[i].k \in {"on_text", "on_binary"} =>
                /\ HostCalls(ws.trace)[i].k = "on_text"
                /\ HostCalls(ws.trace)[i].data = <<233>>

C14_Reassembly == [](C14_Delivered) /\ [][C14_ControlStep]_vars

\* the message was delivered although a ping came between its fragments
C14_Witness ==
    /\ Interleaved
    /\ sentFrames[2].opCode = OPCODE_PING
    /\ ws.isAlive
    /\ ~ws.isReadingMessage
    /\ Len(HostCalls(ws.trace)) = 1
    /\ HostCalls(ws.trace)[1].k = "on_text"
    /\ HostCalls(ws.trace)[1].data = <<233>>

(***************************************************************************)
(* C15: every frame a connection writes (text, binary, ping, pong, close)  *)
(* has its mask bit set and carries a 4-byte masking key if and only if    *)
(* the connection is in the client role, a server never writes a masked    *)
(* frame, and every data frame written has fin set and is not a            *)
(* continuation.                                                           *)
(***************************************************************************)
Writes == TraceOf({"write"})

\* the payload length a written frame declares, and the bytes its length
\* field takes after the first two
DeclaredExtended(frame) ==
    IF LowBits(frame[2], 7) = 126 THEN 2
    ELSE IF LowBits(frame[2], 7) = 127 THEN 8 ELSE 0

DeclaredLength(frame) ==
    IF DeclaredExtended(frame) = 0 THEN LowBits(frame[2], 7)
    ELSE ReadUIntBE(frame, 2, DeclaredExtended(frame), 0)

\* the frame has room for a 4-byte key exactly when its mask bit is set
KeyedIffMasked(frame) ==
    Len(frame) = 2 + DeclaredExtended(frame)
                   + (IF BitSet(frame[2], 7) THEN MASKING_KEY_SIZE ELSE 0)
                   + DeclaredLength(frame)

C15_MaskIffClient ==
    \A i \in 1..Len(Writes) :
        LET frame == Writes[i].data IN
        /\ Len(frame) >= 2
        /\ BitSet(frame[2], 7) <=> ~ws.isPeerMaskingRequired
        /\ KeyedIffMasked(frame)
        /\ LowBits(frame[1], 4) \in {OPCODE_TEXT_FRAME, OPCODE_BINARY_FRAME,
                                     OPCODE_PING, OPCODE_PONG,
                                     OPCODE_CONNECTION_CLOSE}
        /\ BitSet(frame[1], 7)
        /\ ~reservedBitSet(frame[1])

\* a client has written a data frame, a pong and a close frame
C15_Witness ==
    /\ ~ws.isPeerMaskingRequired
    /\ Len(Writes) = 3
    /\ \E i \in 1..3 : LowBits(Writes[i].data[1], 4) = OPCODE_TEXT_FRAME
    /\ \E i \in 1..3 : LowBits(Writes[i].data[1], 4) = OPCODE_PONG
    /\ \E i \in 1..3 : LowBits(Writes[i].data[1], 4) = OPCODE_CONNECTION_CLOSE

(***************************************************************************)
(* C18: a payload serialized as a masked binary or text frame and read as  *)
(* one chunk by a server-role parser is delivered once, by the callback of *)
(* its kind, with the content that was sent, and the caller's buffer is    *)
(* as it was; the frame has the 7-bit length form below 126 bytes, the     *)
(* 16-bit form from 126 to 65535 and the 64-bit form from 65536, and the   *)
(* parser decodes the length that was written.                             *)
(***************************************************************************)
\* the bytes before the payload of a masked frame of n bytes
HeaderForm(opCode, n, key) ==
    <<128 + opCode>>
    \o (IF n < 126 THEN <<128 + n>>
        ELSE IF n <= 65535 THEN <<128 + 126, n \div 256, n % 256>>
        ELSE <<128 + 127, 0, 0, 0, 0, (n \div 16777216) % 256,
               (n \div 65536) % 256, (n \div 256) % 256, n % 256>>)
    \o key

\* the messages delivered so far
Delivered ==
    [i \in 1..Len(HostCalls(ws.trace)) |->
        [k |-> HostCalls(ws.trace)[i].k, data |-> HostCalls(ws.trace)[i].data]]

\* the messages whose frame has been handed over
Expected ==
    [i \in 1..(IF wire = <<>> THEN Len(sentFrames) ELSE Len(sentFrames) - 1) |->
        [k |-> IF sentFrames[i].opCode = OPCODE_BINARY_FRAME
               THEN "on_binary" ELSE "on_text",
         data |-> sentFrames[i].content]]

RECURSIVE FramesFed(_, _)
\* the frames that lie within the first n bytes of the stream
FramesFed(frames, n) ==
    IF frames = <<>> \/ n < Len(FrameBytes(Head(frames))) THEN <<>>
    ELSE <<Head(frames)>>
         \o FramesFed(Tail(frames), n - Len(FrameBytes(Head(frames))))

IsControl(f) == f.opCode \in {OPCODE_PING, OPCODE_PONG}

WithoutControl(frames) == SelectSeq(frames, LAMBDA f : ~IsControl(f))

C20_EveryFrameProcessed ==
    LET fed == FramesFed(sentFrames, nFed)
        data == WithoutControl(fed)
    IN  (cuts = {} /\ DataFrames(WithoutControl(sentFrames), FALSE))
            => /\ HostCalls(ws.trace)
                   = Messages(data, Len(StreamBytes(data)), 0, <<>>)
               /\ Len(PongWrites)
                   = Len(SelectSeq(fed, LAMBDA f : f.opCode = OPCODE_PING))

(***************************************************************************)
(* C19, as stated: whenever the parser expects a header and the chunk      *)
(* holds fewer bytes than the complete header, the connection is dropped   *)
(* with close code 1002.                                                   *)
(***************************************************************************)
ShortHeaderCodes ==
    {"ERR_INAVLID_DATA_FRAME_H2", "ERR_INAVLID_DATA_FRAME_P16",
     "ERR_INAVLID_DATA_FRAME_P64", "ERR_MASKING_KEY_MISSING"}

\* the step ends with the drop for a short header, after n other effects
DroppedShort(n) ==
    /\ ~ws'.isAlive
    /\ Len(NewEffects) = n + 3
    /\ NewEffects[n + 1].k = "write"
    /\ NewEffects[n + 1].data \in CloseFramesOf(1002)
    /\ NewEffects[n + 2].k = "end"
    /\ NewEffects[n + 3].k = "on_end"
    /\ NewEffects[n + 3].app \in ShortHeaderCodes
    /\ NewEffects[n + 3].code = 1002

PassesChecks(f) ==
    /\ f.rsv = 0
    /\ ws.isPeerMaskingRequired => f.masked

\* the chunk of this step ends n bytes into the header of f, which is to be
\* dropped with 1002 for it
ShortFor(f, n) ==
    /\ n < Len(HeaderBytes(f))
    /\ n < 2 \/ PassesChecks(f)

C19_AtChunkStart ==
    ReadsHeader =>
        LET f == FrameRead
            partial == ChunkLength < Len(HeaderBytes(f))
        IN  /\ ShortFor(f, ChunkLength) => DroppedShort(0)
            /\ (partial /\ ChunkLength >= 2 /\ f.rsv # 0)
                   => Dropped("INVALID_EXTENSION", 1003)
            /\ (partial /\ ChunkLength >= 2 /\ f.rsv = 0 /\ ~PassesChecks(f))
                   => Dropped("ERR_PEER_MASKING_DISABLED", 1008)

\* the frame f, which a chunk starts with, is a data frame the parser
\* accepts
AcceptedDataFrame(f) ==
    /\ PassesChecks(f)
    /\ f.opCode \in {OPCODE_CONTINUATION_FRAME, OPCODE_TEXT_FRAME,
                     OPCODE_BINARY_FRAME}
    /\ f.opCode = OPCODE_CONTINUATION_FRAME <=> ws.isReadingMessage

C19_AfterDataFrame ==
    ReadsHeader =>
        LET f == FrameRead
            left == ChunkLength - Len(FrameBytes(f))
            after == FrameAt(sentFrames, nFed + Len(FrameBytes(f)))
        IN  (/\ left > 0
             /\ AcceptedDataFrame(f)
             /\ after # <<>>
             /\ ShortFor(after[1], left))
                => /\ DroppedShort(IF f.fin THEN 1 ELSE 0)
                   /\ f.fin => NewEffects[1].k \in {"on_text", "on_binary"}

Connected == \E i \in DOMAIN handshake.calls : handshake.calls[i].connection

C16_TrailingBytesFed ==
    (handshake.role = "client" /\ Connected /\ wire = <<>>)
        => /\ nFed = Len(StreamBytes(sentFrames))
           /\ sentFrames # <<>>
                => \E i \in DOMAIN HostCalls(ws.trace) :
                      /\ HostCalls(ws.trace)[i].k = "on_text"
                      /\ HostCalls(ws.trace)[i].data = sentFrames[1].payload

(***************************************************************************)
(* C17: a handshake that fails a validation calls the callback with the    *)
(* error of the first failing check, in the order method, HTTP version,    *)
(* Upgrade, Connection, Sec-WebSocket-Key, Sec-WebSocket-Version for the   *)
(* server and status line, HTTP version, status 101, header syntax,        *)
(* Upgrade, Connection, Sec-WebSocket-Accept for the client; it creates no *)
(* connection, writes nothing to the socket and leaves the socket open.    *)
(* The server writes its 101 response only when every check passed and     *)
(* selectProtocol gave no error.                                           *)
(***************************************************************************)
Check(error, passed) == [error |-> error, passed |-> passed]

FirstFailing(checks) ==
    LET failing == SelectSeq(checks, LAMBDA c : ~c.passed)
    IN  IF failing = <<>> THEN NoError ELSE failing[1].error

Contains(tokens, token) ==
    \E i \in DOMAIN tokens : toLowerCase(tokens[i]) = token

ServerChecks(request) ==
    LET has(headerId) == headerId \in DOMAIN request.headers
    IN  <<Check("ERR_METHOD", request.method = "GET"),
          Check("ERR_HTTP_VERSION",
                request.httpVersionMajor > 1
                    \/ (request.httpVersionMajor = 1 /\ request.httpVersionMinor >= 1)),
          Check("ERR_UPGRADE_HEADER",
                has("upgrade") /\ Contains(request.headers["upgrade"], "websocket")),
          Check("ERR_CONNECTION_HEADER",
                has("connection")
                    /\ Contains(request.headers["connection"], "upgrade")),
          Check("ERR_WEBSOCKET_KEY",
                /\ has("sec-websocket-key")
                /\ request.headers["sec-websocket-key"].length = 24
                /\ request.headers["sec-websocket-key"].byteLength = 16),
          Check("ERR_WEBSOCKET_VERSION",
                has("sec-websocket-version")
                    /\ request.headers["sec-websocket-version"] = "13")>>

\* the values of the lines of a response that carry this header
ValuesOf(response, headerId) ==
    SelectSeq(response.lines,
              LAMBDA line : line.colon /\ toLowerCase(line.headerId) = headerId)

ClientChecks(response, secWebSocketKey) ==
    LET last(values) == values[Len(values)].headerValue
        upgrade == ValuesOf(response, "upgrade")
        connection == ValuesOf(response, "connection")
        accept == ValuesOf(response, "sec-websocket-accept")
    IN  <<Check("ERR_NOT_HTTP_SERVER", response.statusLine.protocol = "HTTP"),
          Check("ERR_HTTP_VERSION",
                response.statusLine.major > 1
                    \/ (response.statusLine.major = 1 /\ response.statusLine.minor >= 1)),
          Check("ERR_STATUS_CODE_NOT_UPGRADED", response.statusLine.statusCode = 101),
          Check("ERR_HEADERS",
                \A i \in DOMAIN response.lines : response.lines[i].colon),
          Check("ERR_UPGRADE_HEADER",
                upgrade # <<>> /\ Contains(last(upgrade), "websocket")),
          Check("ERR_CONNECTION_HEADER",
                connection # <<>> /\ Contains(last(connection), "upgrade")),
          Check("ERR_INVALID_ACCEPT",
                /\ accept # <<>>
                /\ last(accept).sha1 = <<secWebSocketKey.text, WEB_SOCKET_GUID>>)>>

\* the step of a handshake that examines a request or a response
C17_Step ==
    (handshake.phase \in {"requested", "listening"} /\ handshake'.phase = "done")
        => LET call == handshake'.calls[Len(handshake'.calls)]
               input == handshake'.input[Len(handshake'.input)]
               server == handshake.role = "server"
               expected ==
                   IF server
                   THEN FirstFailing(ServerChecks(input.request))
                   ELSE FirstFailing(ClientChecks(input, handshake.secWebSocketKey))
               refused == server /\ expected = NoError
                              /\ input.selected.error # NoError
           IN  /\ Len(handshake'.calls) = Len(handshake.calls) + 1
               /\ expected # NoError => call.error = expected
               /\ refused => call.error = input.selected.error
               /\ (expected # NoError \/ refused)
                    => /\ ~call.connection
                       /\ handshake'.written = handshake.written
                       /\ ws' = ws
                       /\ closed' = closed
                       /\ readable' = readable
               /\ handshake'.written # handshake.written
                    => /\ server /\ expected = NoError
                       /\ input.selected.error = NoError
                       /\ call.error = NoError /\ call.connection
                       /\ handshake'.written =
                            Append(handshake.written,
                                   SwitchingProtocols(
                                       input.request.headers["sec-websocket-key"],
                                       input.selected.protocol))

C17_FirstFailingCheck == [][C17_Step]_vars

\* a request without a websocket Upgrade and without an upgrade Connection
\* was answered with ERR_UPGRADE_HEADER, and nothing was written
C17_Witness ==
    /\ handshake.role = "server" /\ handshake.phase = "done"
    /\ handshake.input[1].request.method = "GET"
    /\ handshake.input[1].request.httpVersionMinor = 1
    /\ "upgrade" \in DOMAIN handshake.input[1].request.headers
    /\ handshake.input[1].request.headers["upgrade"] = <<"h2c">>
    /\ handshake.input[1].request.headers["connection"] = <<"keep-alive">>
    /\ handshake.calls = <<[error |-> "ERR_UPGRADE_HEADER", connection |-> FALSE,
                            protocol |-> "null"]>>
    /\ handshake.written = <<>>
    /\ ~closed /\ readable

(***************************************************************************)
(* C21: a header that breaks several rules drops the connection with the   *)
(* code of the first of these checks that fails: fewer than 2 bytes        *)
(* (1002), a reserved bit set (1003), no mask where the peer has to mask   *)
(* (1008), missing extended-length bytes (1002), missing masking-key bytes *)
(* (1002); only a header that passes them all reaches the dispatch on the  *)
(* opcode.  So a server ends the connection with 1008                      *)
(* ERR_PEER_MASKING_DISABLED on an unmasked close frame, not with 1000     *)
(* CLOSED_BY_PEER, and with 1003 on an unmasked frame with a reserved bit. *)
(***************************************************************************)
Outcome(statusCode, appCode) == [code |-> statusCode, app |-> appCode]

NoDrop == Outcome(0, "")

\* the outcome the order of the checks gives for a chunk
FirstCheck(buffer, peerHasToMask) ==
    LET masked == buffer[2] >= 128
        length7 == buffer[2] % 128
        extended == IF length7 = 126 THEN 2 ELSE IF length7 = 127 THEN 8 ELSE 0
        opCode == buffer[1] % 16
    IN  IF Len(buffer) < 2 THEN Outcome(1002, "ERR_INAVLID_DATA_FRAME_H2")
        ELSE IF (buffer[1] \div 16) % 8 # 0 THEN Outcome(1003, "INVALID_EXTENSION")
        ELSE IF peerHasToMask /\ ~masked
        THEN Outcome(1008, "ERR_PEER_MASKING_DISABLED")
        ELSE IF Len(buffer) < 2 + extended
        THEN Outcome(1002, IF extended = 2 THEN "ERR_INAVLID_DATA_FRAME_P16"
                           ELSE "ERR_INAVLID_DATA_FRAME_P64")
        ELSE IF masked /\ Len(buffer) < 2 + extended + 4
        THEN Outcome(1002, "ERR_MASKING_KEY_MISSING")
        ELSE IF opCode = 8 THEN Outcome(1000, "CLOSED_BY_PEER")
        ELSE IF opCode \in {0, 1, 2, 9, 10} THEN NoDrop
        ELSE Outcome(1003, "ERR_UNSUPPORTED_OPCODE")

\* what the connection did with the chunk
Observed ==
    IF ws.isAlive THEN NoDrop
    ELSE LET ends == TraceOf({"on_end"})
         IN  Outcome(ends[1].code, ends[1].app)

C21_FirstFailingCheck ==
    nFed > 0 =>
        LET buffer == sentFrames[1].header
            expected == FirstCheck(buffer, ws.isPeerMaskingRequired)
        IN  /\ Observed = expected
            /\ ~ws.isAlive =>
                  /\ Len(TraceOf({"on_end"})) = 1
                  /\ Len(TraceOf({"write"})) = 1
                  /\ TraceOf({"write"})[1].data \in CloseFramesOf(expected.code)
            /\ (ws.isPeerMaskingRequired /\ buffer = <<136, 0>>)
                  => Observed = Outcome(1008, "ERR_PEER_MASKING_DISABLED")
            /\ (ws.isPeerMaskingRequired /\ buffer \in {<<193, 0>>, <<200, 0>>})
                  => Observed.code = 1003

\* a server was handed the unmasked close frame 88 00 and dropped the
\* connection with 1008
C21_Witness ==
    /\ ws.isPeerMaskingRequired
    /\ nFed = 2
    /\ sentFrames[1].header = <<136, 0>>
    /\ ~ws.isAlive
    /\ TraceOf({"on_end"})[1].app = "ERR_PEER_MASKING_DISABLED"
    /\ TraceOf({"on_end"})[1].code = 1008
    /\ TraceOf({"write"})[1].data = createCloseFrame(1008, FALSE, NoKey)

(***************************************************************************)
(* C22: once the connection has written its close frame and ended the      *)
(* socket, it writes nothing more: no frame of sendTextMessage,            *)
(* sendBinaryMessage or sendPing called afterwards and no pong for a ping  *)
(* that arrives afterwards.  The close frame is the last socket.write of   *)
(* the connection.                                                         *)
(***************************************************************************)
C22_CloseFrameIsLastWrite ==
    \A i \in DOMAIN ws.trace :
        (ws.trace[i].k = "write" /\ IsCloseFrame(ws.trace[i].data))
            => \A j \in (i + 1)..Len(ws.trace) : ws.trace[j].k # "write"

(***************************************************************************)
(* C23: one call of createClientConnection calls its callback at most      *)
(* once, whatever events the socket emits during the handshake: after a    *)
(* call with an error or with a connection, no later 'end', 'error' or     *)
(* 'data' event calls it again.                                            *)
(***************************************************************************)
C23_CallbackAtMostOnce ==
    handshake.role = "client" => Len(handshake.calls) <= 1

=============================================================================
